---- MODULE Spec2Model ----
(***************************************************************************)
(* The block-builder scheduler's job table (type schedule): a map of job   *)
(* id to job record plus the list of outstanding (unassigned) jobs, with   *)
(* leases that expire on a wall clock.                                     *)
(*                                                                         *)
(*   Spec       the operations of the table, each as one step              *)
(*   SpecCalls  concurrent assign calls, statement by statement, under the *)
(*              mutex of the table                                         *)
(*   SpecSched  the scheduler's assignJob and updateJob on top of the      *)
(*              table, with its observation window                         *)
(***************************************************************************)
EXTENDS Integers, Sequences, FiniteSets, TLC

\* ------------------------------------------------------------------ bounds

MaxTime == 3        \* the wall clock runs 0..MaxTime
MaxSortTime == 2    \* job times (sortTime, commitRecTs) are 1..MaxSortTime
MaxFail == 2        \* a lease is reclaimed only while failCount < MaxFail
MaxEpoch == 2       \* a job id is created at most MaxEpoch times
MaxLag == 1         \* clearExpiredLeases reads the clock at most MaxLag before it gets the lock
MaxOffset == 2      \* a partition holds at most MaxOffset records
MaxRounds == 3      \* the leases of a job are let expire MaxRounds times in a row
MaxItems == 3       \* a component queue holds at most MaxItems requests
MaxWorkerID == 5    \* worker ids are -MaxWorkerID..MaxWorkerID
MaxTs == 3          \* the timestamps of samples are 1..MaxTs
MaxSize == 2        \* merge is called with a batch size of 1..MaxSize

leaseTime == 1      \* schedule.leaseTime

Ids == {"j1", "j2"}
Workers == {"w0", "w1"}
NoWorker == ""
WorkerArgs == Workers \cup {NoWorker}
NoJob == ""
\* the query components, one queue broker each
Components == {"none", "ingester", "store-gateway", "ingester-and-store-gateway"}
\* the partitions of the topic, and the gauges of a partition before a sweep
Partitions == {0, 1}
NoPartition == -1
NoGauge == [start |-> -1, end |-> -1]
\* no completion of a job of the id was accepted yet
NoDone == [epoch |-> 0, worker |-> NoWorker]

SortTimes == 1..MaxSortTime
\* the job specs a caller passes: the end offset and the commit timestamp of a
\* partition advance together
Specs == {[endOffset |-> t, commitRecTs |-> t] : t \in SortTimes}

Nil == "nil"
errWorkerEmpty == "worker cannot not be empty"
errJobNotFound == "job not found"
errJobNotAssigned == "job not assigned to worker"

\* ------------------------------------------------------------------ state

VARIABLES
    jobs,           \* schedule.jobs: id -> job record, DOMAIN jobs the known ids
    outstanding,    \* schedule.outstanding: the list of unassigned jobs (by id)
    epochs,         \* id -> the epoch last given to a record of that id (0: none yet)
    clock,          \* time.Now()
    mu,             \* schedule.mu: the worker whose assign call holds the lock, or NoWorker
    pc,             \* where each worker's assign call stands
    local,          \* the variable j of each worker's assign call
    handed,         \* id -> the workers an assign call returned the job to, since the job
                    \* was created or last reclaimed
    observationComplete,  \* the scheduler has left its observation window
    completed,      \* id -> the key epoch and worker of the last completion of a job of
                    \* the id that updateJob accepted, or NoDone (history, kept
                    \* by SpecClient only)
    created,        \* the ids of the table in the order in which their records were
                    \* created (history, kept by SpecHistory only)
    expiries,       \* id -> the number of leases on the id that expired, since the id
                    \* was first created (history, kept by SpecHistory only)
    log,            \* the partitions of the topic: start, end and committed offset
    gauges,         \* partition -> the start and end offset gauges last published
    queues,         \* dimensionalQueueBroker: component -> the requests its queue holds
    stream          \* batchStream: the batches of the stream

tableVars == <<jobs, outstanding, epochs>>
callVars == <<mu, pc, local, handed>>
vars == <<jobs, outstanding, epochs, clock, mu, pc, local, handed, observationComplete,
          completed, created, expiries, log, gauges, queues, stream>>
traceVars == <<created, expiries>>
genVars == <<log, gauges>>
libVars == <<queues, stream>>

\* The schedule as a value: the operations below are functions of it.
Sched == [jobs |-> jobs, outstanding |-> outstanding, epochs |-> epochs]

\* ------------------------------------------------------------------ helpers

\* m with key k set to v (a Go map store)
MapPut(m, k, v) == [x \in (DOMAIN m) \cup {k} |-> IF x = k THEN v ELSE m[x]]

\* m without key k (a Go map delete)
MapDelete(m, k) == [x \in (DOMAIN m) \ {k} |-> m[x]]

\* every order in which a Go range statement may visit the keys S
Orders(S) == {q \in [1..Cardinality(S) -> S] : \A i, k \in 1..Cardinality(S) : i # k => q[i] # q[k]}

\* x put into the sorted list after every element whose sortTime is not greater
RECURSIVE InsertStable(_, _, _)
InsertStable(sorted, x, js) ==
    IF sorted = <<>> THEN <<x>>
    ELSE IF js[x].sortTime < js[Head(sorted)].sortTime THEN <<x>> \o sorted
    ELSE <<Head(sorted)>> \o InsertStable(Tail(sorted), x, js)

\* slices.SortStableFunc(list, cmp by sortTime)
RECURSIVE SortStableFunc(_, _)
SortStableFunc(list, js) ==
    IF list = <<>> THEN <<>>
    ELSE InsertStable(SortStableFunc(SubSeq(list, 1, Len(list) - 1), js), list[Len(list)], js)

\* ------------------------------------------------------------------ schedule

newSchedule == [jobs |-> <<>>, outstanding |-> <<>>, epochs |-> [id \in Ids |-> 0]]

\* mutant: the list is left as it is
\* mutant: the sort is not stable, jobs of equal sortTime change places
sortOutstandingUnstable(s) ==
    LET Reverse(list) == [i \in 1..Len(list) |-> list[Len(list) + 1 - i]]
    IN  [s EXCEPT !.outstanding = SortStableFunc(Reverse(s.outstanding), s.jobs)]

sortOutstandingNone(s) == s

sortOutstanding(s) == [s EXCEPT !.outstanding = SortStableFunc(s.outstanding, s.jobs)]

\* mutant: a job whose lease has run out counts as unassigned for the call
assignReclaiming(s, worker, now) ==
    LET free == {id \in DOMAIN s.jobs :
                    s.jobs[id].assignee = NoWorker \/ now > s.jobs[id].leaseExpiry}
    IN  IF worker = NoWorker THEN [s |-> s, job |-> NoJob, err |-> errWorkerEmpty]
        ELSE IF free = {} THEN [s |-> s, job |-> NoJob, err |-> Nil]
        ELSE LET j == CHOOSE x \in free :
                          \A y \in free : s.jobs[x].sortTime <= s.jobs[y].sortTime
             IN  [s |-> [s EXCEPT !.outstanding = SelectSeq(@, LAMBDA x : x # j),
                                  !.jobs[j].assignee = worker,
                                  !.jobs[j].leaseExpiry = now + leaseTime],
                  job |-> j, err |-> Nil]

\* mutant: the job at the end of the list is taken
assignLast(s, worker, now) ==
    IF worker = NoWorker THEN [s |-> s, job |-> NoJob, err |-> errWorkerEmpty]
    ELSE IF Len(s.outstanding) = 0 THEN [s |-> s, job |-> NoJob, err |-> Nil]
    ELSE LET j == s.outstanding[Len(s.outstanding)]
         IN  [s |-> [s EXCEPT !.outstanding = SubSeq(@, 1, Len(@) - 1),
                              !.jobs[j].assignee = worker,
                              !.jobs[j].leaseExpiry = now + leaseTime],
              job |-> j, err |-> Nil]

\* mutant: the worker is not checked
assignAnyWorker(s, worker, now) ==
    IF Len(s.outstanding) = 0 THEN [s |-> s, job |-> NoJob, err |-> Nil]
    ELSE LET j == s.outstanding[1]
         IN  [s |-> [s EXCEPT !.outstanding = Tail(@),
                              !.jobs[j].assignee = worker,
                              !.jobs[j].leaseExpiry = now + leaseTime],
              job |-> j, err |-> Nil]

\* mutant: the job handed out starts with a clear failCount
assignFresh(s, worker, now) ==
    IF worker = NoWorker THEN [s |-> s, job |-> NoJob, err |-> errWorkerEmpty]
    ELSE IF Len(s.outstanding) = 0 THEN [s |-> s, job |-> NoJob, err |-> Nil]
    ELSE LET j == s.outstanding[1]
         IN  [s |-> [s EXCEPT !.outstanding = Tail(@),
                              !.jobs[j].assignee = worker,
                              !.jobs[j].failCount = 0,
                              !.jobs[j].leaseExpiry = now + leaseTime],
              job |-> j, err |-> Nil]

assign(s, worker, now) ==
    IF worker = NoWorker THEN [s |-> s, job |-> NoJob, err |-> errWorkerEmpty]
    ELSE IF Len(s.outstanding) = 0 THEN [s |-> s, job |-> NoJob, err |-> Nil]
    ELSE LET j == s.outstanding[1]
         IN  [s |-> [s EXCEPT !.outstanding = Tail(@),
                              !.jobs[j].assignee = worker,
                              !.jobs[j].leaseExpiry = now + leaseTime],
              job |-> j, err |-> Nil]

\* mutant: a new record starts with a failure counted
newJobFailed(id, jobTime, spec, now) ==
    [id |-> id, sortTime |-> jobTime, assignee |-> NoWorker,
     leaseExpiry |-> now + leaseTime, failCount |-> 1, spec |-> spec]

newJob(id, jobTime, spec, now) ==
    [id |-> id, sortTime |-> jobTime, assignee |-> NoWorker,
     leaseExpiry |-> now + leaseTime, failCount |-> 0, spec |-> spec]

\* mutant: an update of the job time does not sort the list again
addOrUpdateNoResort(s, id, jobTime, spec, now) ==
    IF id \in DOMAIN s.jobs
    THEN IF s.jobs[id].assignee = NoWorker
         THEN [s EXCEPT !.jobs[id].sortTime = jobTime, !.jobs[id].spec = spec]
         ELSE s
    ELSE sortOutstanding([s EXCEPT !.jobs = MapPut(@, id, newJob(id, jobTime, spec, now)),
                                   !.outstanding = Append(@, id)])

\* mutant: an assigned job is updated like an unassigned one
addOrUpdateAssigned(s, id, jobTime, spec, now) ==
    IF id \in DOMAIN s.jobs
    THEN LET resort == s.jobs[id].sortTime # jobTime
             s1 == [s EXCEPT !.jobs[id].sortTime = jobTime, !.jobs[id].spec = spec]
         IN  IF resort THEN sortOutstanding(s1) ELSE s1
    ELSE sortOutstanding([s EXCEPT !.jobs = MapPut(@, id, newJob(id, jobTime, spec, now)),
                                   !.outstanding = Append(@, id)])

\* mutant: an update of an unassigned job puts the job into the list again
addOrUpdateAppend(s, id, jobTime, spec, now) ==
    IF id \in DOMAIN s.jobs
    THEN IF s.jobs[id].assignee = NoWorker
         THEN sortOutstanding([s EXCEPT !.jobs[id].sortTime = jobTime, !.jobs[id].spec = spec,
                                        !.outstanding = Append(@, id)])
         ELSE s
    ELSE sortOutstanding([s EXCEPT !.jobs = MapPut(@, id, newJob(id, jobTime, spec, now)),
                                   !.outstanding = Append(@, id)])

\* mutant: an update of an unassigned job stores a fresh record
addOrUpdateOverwrite(s, id, jobTime, spec, now) ==
    IF id \in DOMAIN s.jobs
    THEN IF s.jobs[id].assignee = NoWorker
         THEN sortOutstanding([s EXCEPT !.jobs[id] = newJob(id, jobTime, spec, now)])
         ELSE s
    ELSE sortOutstanding([s EXCEPT !.jobs = MapPut(@, id, newJob(id, jobTime, spec, now)),
                                   !.outstanding = Append(@, id)])

addOrUpdate(s, id, jobTime, spec, now) ==
    IF id \in DOMAIN s.jobs
    THEN IF s.jobs[id].assignee = NoWorker
         THEN LET resort == s.jobs[id].sortTime # jobTime
                  s1 == [s EXCEPT !.jobs[id].sortTime = jobTime, !.jobs[id].spec = spec]
              IN  IF resort THEN sortOutstanding(s1) ELSE s1
         ELSE s
    ELSE sortOutstanding([s EXCEPT !.jobs = MapPut(@, id, newJob(id, jobTime, spec, now)),
                                   !.outstanding = Append(@, id)])

\* mutant: a lease that has run out is not renewed
renewLeaseLiveOnly(s, id, worker, now) ==
    IF worker = NoWorker THEN [s |-> s, err |-> errWorkerEmpty]
    ELSE IF id \notin DOMAIN s.jobs THEN [s |-> s, err |-> errJobNotFound]
    ELSE IF s.jobs[id].assignee # worker THEN [s |-> s, err |-> errJobNotAssigned]
    ELSE IF now > s.jobs[id].leaseExpiry THEN [s |-> s, err |-> errJobNotAssigned]
    ELSE [s |-> [s EXCEPT !.jobs[id].leaseExpiry = now + leaseTime], err |-> Nil]

\* mutant: the lease is extended from its old end, not from now
renewLeaseFromExpiry(s, id, worker, now) ==
    IF worker = NoWorker THEN [s |-> s, err |-> errWorkerEmpty]
    ELSE IF id \notin DOMAIN s.jobs THEN [s |-> s, err |-> errJobNotFound]
    ELSE IF s.jobs[id].assignee # worker THEN [s |-> s, err |-> errJobNotAssigned]
    ELSE [s |-> [s EXCEPT !.jobs[id].leaseExpiry = @ + leaseTime], err |-> Nil]

\* mutant: the assignee is not compared with the caller
renewLeaseAnyWorker(s, id, worker, now) ==
    IF worker = NoWorker THEN [s |-> s, err |-> errWorkerEmpty]
    ELSE IF id \notin DOMAIN s.jobs THEN [s |-> s, err |-> errJobNotFound]
    ELSE [s |-> [s EXCEPT !.jobs[id].leaseExpiry = now + leaseTime], err |-> Nil]

renewLease(s, id, worker, now) ==
    IF worker = NoWorker THEN [s |-> s, err |-> errWorkerEmpty]
    ELSE IF id \notin DOMAIN s.jobs THEN [s |-> s, err |-> errJobNotFound]
    ELSE IF s.jobs[id].assignee # worker THEN [s |-> s, err |-> errJobNotAssigned]
    ELSE [s |-> [s EXCEPT !.jobs[id].leaseExpiry = now + leaseTime], err |-> Nil]

\* mutant: the assignee is not looked at
expiredAnyAssignee(j, now) == now > j.leaseExpiry

\* mutant: a lease is expired at its deadline already
expiredAtDeadline(j, now) == j.assignee # NoWorker /\ now >= j.leaseExpiry

expired(j, now) == j.assignee # NoWorker /\ now > j.leaseExpiry

\* mutant: a job whose lease expires again is given up
RECURSIVE clearLoopAbandon(_, _, _)
clearLoopAbandon(s, now, order) ==
    IF order = <<>> THEN s
    ELSE LET id == Head(order)
             s1 == IF expired(s.jobs[id], now)
                   THEN IF s.jobs[id].failCount >= 1
                        THEN [s EXCEPT !.jobs = MapDelete(@, id)]
                        ELSE [s EXCEPT !.jobs[id].assignee = NoWorker,
                                       !.jobs[id].failCount = @ + 1,
                                       !.outstanding = Append(@, id)]
                   ELSE s
         IN  clearLoopAbandon(s1, now, Tail(order))

\* mutant: a lease that expired is reclaimed and not counted
RECURSIVE clearLoopUncounted(_, _, _)
clearLoopUncounted(s, now, order) ==
    IF order = <<>> THEN s
    ELSE LET id == Head(order)
             s1 == IF expired(s.jobs[id], now)
                   THEN [s EXCEPT !.jobs[id].assignee = NoWorker,
                                  !.outstanding = Append(@, id)]
                   ELSE s
         IN  clearLoopUncounted(s1, now, Tail(order))

\* the loop of clearExpiredLeases over the map, visiting the keys in `order`
RECURSIVE clearLoop(_, _, _)
clearLoop(s, now, order) ==
    IF order = <<>> THEN s
    ELSE LET id == Head(order)
             s1 == IF expired(s.jobs[id], now)
                   THEN [s EXCEPT !.jobs[id].assignee = NoWorker,
                                  !.jobs[id].failCount = @ + 1,
                                  !.outstanding = Append(@, id)]
                   ELSE s
         IN  clearLoop(s1, now, Tail(order))

clearExpiredLeases(s, now, order) == sortOutstanding(clearLoop(s, now, order))

\* mutant: a job is deleted whoever holds it, and when nobody does
completeAnyWorker(s, id, worker) ==
    IF worker = NoWorker THEN [s |-> s, err |-> errWorkerEmpty]
    ELSE IF id \notin DOMAIN s.jobs THEN [s |-> s, err |-> errJobNotFound]
    ELSE [s |-> [s EXCEPT !.jobs = MapDelete(@, id)], err |-> Nil]

\* mutant: the record stays in the map
completeKept(s, id, worker) ==
    IF worker = NoWorker THEN [s |-> s, err |-> errWorkerEmpty]
    ELSE IF id \notin DOMAIN s.jobs THEN [s |-> s, err |-> errJobNotFound]
    ELSE IF s.jobs[id].assignee # worker THEN [s |-> s, err |-> errJobNotAssigned]
    ELSE [s |-> s, err |-> Nil]

\* complete(id, worker): the checks of renewLease, then the record is deleted
complete(s, id, worker) ==
    IF worker = NoWorker THEN [s |-> s, err |-> errWorkerEmpty]
    ELSE IF id \notin DOMAIN s.jobs THEN [s |-> s, err |-> errJobNotFound]
    ELSE IF s.jobs[id].assignee # worker THEN [s |-> s, err |-> errJobNotAssigned]
    ELSE [s |-> [s EXCEPT !.jobs = MapDelete(@, id)], err |-> Nil]

\* mutant: a record created again keeps the epoch of the one before
addOrUpdateEpochKept(s, id, jobTime, spec, now) == addOrUpdate(s, id, jobTime, spec, now)

\* addOrUpdate with the epoch of the record: a record created for an id gets the
\* epoch after the last one the id had
addOrUpdateEpoch(s, id, jobTime, spec, now) ==
    LET s1 == addOrUpdate(s, id, jobTime, spec, now)
    IN  IF id \in DOMAIN s.jobs THEN s1 ELSE [s1 EXCEPT !.epochs[id] = @ + 1]

\* ------------------------------------------------------------------ actions

Store(s) == jobs' = s.jobs /\ outstanding' = s.outstanding /\ epochs' = s.epochs

Init ==
    /\ jobs = newSchedule.jobs
    /\ outstanding = newSchedule.outstanding
    /\ epochs = newSchedule.epochs
    /\ clock = 0
    /\ mu = NoWorker
    /\ pc = [w \in Workers |-> "idle"]
    /\ local = [w \in Workers |-> NoJob]
    /\ handed = [id \in Ids |-> {}]
    /\ observationComplete = FALSE
    /\ completed = [id \in Ids |-> NoDone]
    /\ created = <<>>
    /\ expiries = [id \in Ids |-> 0]
    /\ log = [p \in Partitions |-> [start |-> 0, end |-> 0, committed |-> 0]]
    /\ gauges = [p \in Partitions |-> NoGauge]
    /\ queues = [c \in Components |-> 0]
    /\ stream = <<>>

\* what a table operation leaves alone
TableFrame == UNCHANGED <<clock, mu, pc, local, observationComplete, completed, genVars, libVars>>
Frame == TableFrame /\ UNCHANGED traceVars

Assign(worker) ==
    LET r == assign(Sched, worker, clock)
    IN  /\ Store(r.s)
        /\ handed' = IF r.job = NoJob THEN handed ELSE [handed EXCEPT ![r.job] = @ \cup {worker}]
        /\ Frame

AddOrUpdate(id, jobTime, spec) ==
    /\ id \notin DOMAIN jobs => epochs[id] < MaxEpoch
    /\ Store(addOrUpdateEpoch(Sched, id, jobTime, spec, clock))
    /\ UNCHANGED handed
    /\ Frame

RenewLease(id, worker) ==
    LET r == renewLease(Sched, id, worker, clock)
    IN  /\ Store(r.s)
        /\ UNCHANGED handed
        /\ Frame

Complete(id, worker) ==
    LET r == complete(Sched, id, worker)
    IN  /\ Store(r.s)
        /\ handed' = IF r.err = Nil THEN [handed EXCEPT ![id] = {}] ELSE handed
        /\ Frame

ClearExpiredLeases(now, order) ==
    /\ \A id \in DOMAIN jobs : expired(jobs[id], now) => jobs[id].failCount < MaxFail
    /\ Store(clearExpiredLeases(Sched, now, order))
    /\ handed' = [id \in Ids |->
                      IF id \in DOMAIN jobs /\ expired(jobs[id], now) THEN {} ELSE handed[id]]
    /\ Frame

Tick ==
    /\ clock < MaxTime
    /\ clock' = clock + 1
    /\ UNCHANGED <<tableVars, callVars, observationComplete, completed, traceVars, genVars, libVars>>

Next ==
    \/ \E worker \in WorkerArgs : Assign(worker)
    \/ \E id \in Ids, jobTime \in SortTimes, spec \in Specs : AddOrUpdate(id, jobTime, spec)
    \/ \E id \in Ids, worker \in WorkerArgs : RenewLease(id, worker)
    \/ \E id \in Ids, worker \in WorkerArgs : Complete(id, worker)
    \/ \E lag \in 0..MaxLag, order \in Orders(DOMAIN jobs) :
          clock - lag >= 0 /\ ClearExpiredLeases(clock - lag, order)
    \/ Tick

Spec == Init /\ [][Next]_vars

\* ------------------------------------------------------------------ the table, with
\* the history of its records

\* addOrUpdate as in AddOrUpdate; a new record is noted as the last one created
HistAddOrUpdate(id, jobTime, spec) ==
    /\ id \notin DOMAIN jobs => epochs[id] < MaxEpoch
    /\ Store(addOrUpdateEpoch(Sched, id, jobTime, spec, clock))
    /\ created' = IF id \in DOMAIN jobs THEN created ELSE Append(created, id)
    /\ UNCHANGED <<handed, expiries>>
    /\ TableFrame

\* complete as in Complete; the record that is deleted is no longer noted
HistComplete(id, worker) ==
    LET r == complete(Sched, id, worker)
    IN  /\ Store(r.s)
        /\ handed' = IF r.err = Nil THEN [handed EXCEPT ![id] = {}] ELSE handed
        /\ created' = IF r.err = Nil THEN SelectSeq(created, LAMBDA x : x # id) ELSE created
        /\ UNCHANGED expiries
        /\ TableFrame

\* clearExpiredLeases as in ClearExpiredLeases; the leases that expired are counted
HistClearExpiredLeases(now, order) ==
    /\ \A id \in DOMAIN jobs : expired(jobs[id], now) => jobs[id].failCount < MaxFail
    /\ Store(clearExpiredLeases(Sched, now, order))
    /\ handed' = [id \in Ids |->
                      IF id \in DOMAIN jobs /\ expired(jobs[id], now) THEN {} ELSE handed[id]]
    /\ expiries' = [id \in Ids |->
                      IF id \in DOMAIN jobs /\ expired(jobs[id], now)
                      THEN expiries[id] + 1 ELSE expiries[id]]
    /\ UNCHANGED created
    /\ TableFrame

NextHistory ==
    \/ \E worker \in WorkerArgs : Assign(worker)
    \/ \E id \in Ids, jobTime \in SortTimes, spec \in Specs : HistAddOrUpdate(id, jobTime, spec)
    \/ \E id \in Ids, worker \in WorkerArgs : RenewLease(id, worker)
    \/ \E id \in Ids, worker \in WorkerArgs : HistComplete(id, worker)
    \/ \E lag \in 0..MaxLag, order \in Orders(DOMAIN jobs) :
          clock - lag >= 0 /\ HistClearExpiredLeases(clock - lag, order)
    \/ Tick

SpecHistory == Init /\ [][NextHistory]_vars

\* ------------------------------------------------------------------ the table, with
\* a worker that stops heartbeating

\* the worker that takes jobs and is never heard of again, and the one that
\* renews and completes
Gone == "w0"
Keen == "w1"

\* a run of clearExpiredLeases, with the clock read at most MaxLag before the lock
SweepLeases ==
    \E lag \in 0..MaxLag, order \in Orders(DOMAIN jobs) :
        clock - lag >= 0 /\ ClearExpiredLeases(clock - lag, order)

\* mutant: the run that finds an expired lease leaves it
SweepDueIdle ==
    /\ \E id \in DOMAIN jobs : expired(jobs[id], clock)
    /\ UNCHANGED vars

\* a run of clearExpiredLeases while a lease has expired
SweepDue ==
    /\ \E id \in DOMAIN jobs : expired(jobs[id], clock)
    /\ SweepLeases

\* an assign call of a worker
AssignCall(worker) == Assign(worker)

\* the generator adds or updates a job, its commitRecTs as the job time
LeaseAddOrUpdate(id, jobTime) ==
    AddOrUpdate(id, jobTime, [endOffset |-> jobTime, commitRecTs |-> jobTime])

NextLease ==
    \/ \E worker \in Workers : AssignCall(worker)
    \/ \E id \in Ids, jobTime \in SortTimes : LeaseAddOrUpdate(id, jobTime)
    \/ \E id \in Ids : RenewLease(id, Keen)
    \/ \E id \in Ids : Complete(id, Keen)
    \/ SweepLeases
    \/ Tick

\* time advances, and the Keen worker keeps calling assign
SpecLease == Init /\ [][NextLease]_vars /\ WF_vars(Tick) /\ WF_vars(AssignCall(Keen))

\* ------------------------------------------------------------------ assign, step by step

\* mutant: Lock does not wait for the holder of the mutex
LockNoWait(m) == TRUE

\* s.mu.Lock() returns when no call holds the mutex
Lock(m) == m = NoWorker

CallFrame == UNCHANGED <<epochs, clock, handed, observationComplete, completed, traceVars, genVars, libVars>>

\* s.mu.Lock()
assignLock(w) ==
    /\ pc[w] = "idle"
    /\ Lock(mu)
    /\ mu' = w
    /\ pc' = [pc EXCEPT ![w] = "locked"]
    /\ UNCHANGED <<jobs, outstanding, local>>
    /\ CallFrame

\* an empty list: return nil, nil (and the deferred Unlock); else j := s.outstanding[0]
assignHead(w) ==
    /\ pc[w] = "locked"
    /\ IF Len(outstanding) = 0
       THEN /\ pc' = [pc EXCEPT ![w] = "idle"]
            /\ mu' = NoWorker
            /\ UNCHANGED local
       ELSE /\ pc' = [pc EXCEPT ![w] = "head"]
            /\ local' = [local EXCEPT ![w] = outstanding[1]]
            /\ UNCHANGED mu
    /\ UNCHANGED <<jobs, outstanding>>
    /\ CallFrame

\* s.outstanding = s.outstanding[1:], which panics on an empty slice
assignPop(w) ==
    /\ pc[w] = "head"
    /\ IF Len(outstanding) = 0
       THEN pc' = [pc EXCEPT ![w] = "panic"] /\ UNCHANGED outstanding
       ELSE pc' = [pc EXCEPT ![w] = "popped"] /\ outstanding' = Tail(outstanding)
    /\ UNCHANGED <<jobs, mu, local>>
    /\ CallFrame

\* j.assignee = worker; j.leaseExpiry = time.Now().Add(s.leaseTime): writes to the
\* record j points to, which is the one in the map unless it was deleted
assignLease(w) ==
    /\ pc[w] = "popped"
    /\ jobs' = IF local[w] \in DOMAIN jobs
               THEN [jobs EXCEPT ![local[w]].assignee = w,
                                 ![local[w]].leaseExpiry = clock + leaseTime]
               ELSE jobs
    /\ pc' = [pc EXCEPT ![w] = "leased"]
    /\ UNCHANGED <<outstanding, mu, local>>
    /\ CallFrame

\* mutant: the call returns without the Unlock
assignReturnLocked(w) ==
    /\ pc[w] = "leased"
    /\ handed' = [handed EXCEPT ![local[w]] = @ \cup {w}]
    /\ pc' = [pc EXCEPT ![w] = "idle"]
    /\ local' = [local EXCEPT ![w] = NoJob]
    /\ UNCHANGED <<mu, tableVars, clock, observationComplete, completed, traceVars, genVars, libVars>>

\* return j, nil, and the deferred s.mu.Unlock()
assignReturn(w) ==
    /\ pc[w] = "leased"
    /\ handed' = [handed EXCEPT ![local[w]] = @ \cup {w}]
    /\ mu' = NoWorker
    /\ pc' = [pc EXCEPT ![w] = "idle"]
    /\ local' = [local EXCEPT ![w] = NoJob]
    /\ UNCHANGED <<tableVars, clock, observationComplete, completed, traceVars, genVars, libVars>>

\* concurrent assign calls of the workers, with the other operations each run under
\* the lock as a whole
NextCalls ==
    \/ \E w \in Workers : assignLock(w)
    \/ \E w \in Workers : assignHead(w)
    \/ \E w \in Workers : assignPop(w)
    \/ \E w \in Workers : assignLease(w)
    \/ \E w \in Workers : assignReturn(w)
    \/ \E id \in Ids, jobTime \in SortTimes, spec \in Specs :
          Lock(mu) /\ AddOrUpdate(id, jobTime, spec)
    \/ \E id \in Ids, worker \in WorkerArgs : Lock(mu) /\ RenewLease(id, worker)
    \/ \E id \in Ids, worker \in WorkerArgs : Lock(mu) /\ Complete(id, worker)
    \/ \E lag \in 0..MaxLag, order \in Orders(DOMAIN jobs) :
          Lock(mu) /\ clock - lag >= 0 /\ ClearExpiredLeases(clock - lag, order)
    \/ Tick

SpecCalls == Init /\ [][NextCalls]_vars

\* the steps of a call that has the lock
assignRun(w) == assignHead(w) \/ assignPop(w) \/ assignLease(w) \/ assignReturn(w)

\* A call that holds the lock is a running goroutine: it does not wait for anything,
\* and the Go scheduler runs it on.
SpecCallsFair == SpecCalls /\ \A w \in Workers : WF_vars(assignRun(w))

\* ------------------------------------------------------------------ scheduler

errNoJobAvailable == "no job available"
errBadEpoch == "bad epoch"

\* the job keys a worker may present
Keys == [id : Ids, epoch : 1..MaxEpoch]
NoKey == [id |-> NoJob, epoch |-> 0]
NoSpec == [endOffset |-> 0, commitRecTs |-> 0]

\* the list without id
Without(list, id) == SelectSeq(list, LAMBDA x : x # id)

\* mutant: a completion seen in the window leaves the record where it is
updateObservationKept(s, key, worker, done, spec, now) ==
    IF key.epoch < s.epochs[key.id] THEN s
    ELSE IF done
    THEN [s EXCEPT !.epochs[key.id] = key.epoch]
    ELSE LET known == key.id \in DOMAIN s.jobs /\ key.epoch = s.epochs[key.id]
             j == [id |-> key.id, sortTime |-> spec.commitRecTs, assignee |-> worker,
                   leaseExpiry |-> now + leaseTime,
                   failCount |-> IF known THEN s.jobs[key.id].failCount ELSE 0,
                   spec |-> spec]
         IN  [s EXCEPT !.jobs = MapPut(@, key.id, j),
                       !.outstanding = Without(@, key.id),
                       !.epochs[key.id] = key.epoch]

\* mutant: a heartbeat for a job that is not in the table is dropped
updateObservationKnown(s, key, worker, done, spec, now) ==
    IF key.epoch < s.epochs[key.id] THEN s
    ELSE IF done
    THEN [s EXCEPT !.jobs = MapDelete(@, key.id),
                   !.outstanding = Without(@, key.id),
                   !.epochs[key.id] = key.epoch]
    ELSE IF key.id \in DOMAIN s.jobs /\ key.epoch = s.epochs[key.id]
    THEN [s EXCEPT !.jobs[key.id].assignee = worker,
                   !.jobs[key.id].leaseExpiry = now + leaseTime,
                   !.jobs[key.id].spec = spec,
                   !.outstanding = Without(@, key.id)]
    ELSE s

\* an update received in the observation window: a heartbeat is taken as evidence
\* that the job exists with this epoch and spec and is held by the worker, a
\* completion removes the job; a report of an epoch older than the known one is
\* dropped
updateObservation(s, key, worker, done, spec, now) ==
    IF key.epoch < s.epochs[key.id] THEN s
    ELSE IF done
    THEN [s EXCEPT !.jobs = MapDelete(@, key.id),
                   !.outstanding = Without(@, key.id),
                   !.epochs[key.id] = key.epoch]
    ELSE LET known == key.id \in DOMAIN s.jobs /\ key.epoch = s.epochs[key.id]
             j == [id |-> key.id, sortTime |-> spec.commitRecTs, assignee |-> worker,
                   leaseExpiry |-> now + leaseTime,
                   failCount |-> IF known THEN s.jobs[key.id].failCount ELSE 0,
                   spec |-> spec]
         IN  [s EXCEPT !.jobs = MapPut(@, key.id, j),
                       !.outstanding = Without(@, key.id),
                       !.epochs[key.id] = key.epoch]

\* mutant: the completion of a job that is gone is looked up like any other
updateJobCompleteOnce(s, obs, key, worker, done, spec, now) ==
    IF worker = NoWorker THEN [s |-> s, err |-> errWorkerEmpty]
    ELSE IF key.epoch < s.epochs[key.id] THEN [s |-> s, err |-> errBadEpoch]
    ELSE IF ~obs THEN [s |-> updateObservation(s, key, worker, done, spec, now), err |-> Nil]
    ELSE IF key.epoch # s.epochs[key.id] THEN [s |-> s, err |-> errBadEpoch]
    ELSE IF done THEN complete(s, key.id, worker)
    ELSE renewLease(s, key.id, worker, now)

\* mutant: the epoch of the key is not compared
updateJobAnyEpoch(s, obs, key, worker, done, spec, now) ==
    IF worker = NoWorker THEN [s |-> s, err |-> errWorkerEmpty]
    ELSE IF ~obs THEN [s |-> updateObservation(s, key, worker, done, spec, now), err |-> Nil]
    ELSE IF done /\ key.id \notin DOMAIN s.jobs THEN [s |-> s, err |-> Nil]
    ELSE IF done THEN complete(s, key.id, worker)
    ELSE renewLease(s, key.id, worker, now)

\* updateJob(key, workerID, complete, spec); obs is observationComplete. A key of
\* a stale epoch is rejected on every call, and outside the observation window so
\* is every key whose epoch is not the one of the id; a completion of a job that is
\* gone is accepted again
updateJob(s, obs, key, worker, done, spec, now) ==
    IF worker = NoWorker THEN [s |-> s, err |-> errWorkerEmpty]
    ELSE IF key.epoch < s.epochs[key.id] THEN [s |-> s, err |-> errBadEpoch]
    ELSE IF ~obs THEN [s |-> updateObservation(s, key, worker, done, spec, now), err |-> Nil]
    ELSE IF key.epoch # s.epochs[key.id] THEN [s |-> s, err |-> errBadEpoch]
    ELSE IF done /\ key.id \notin DOMAIN s.jobs THEN [s |-> s, err |-> Nil]
    ELSE IF done THEN complete(s, key.id, worker)
    ELSE renewLease(s, key.id, worker, now)

\* mutant: jobs are handed out in the observation window too
assignJobAnyTime(s, obs, worker, now) ==
    LET r == assign(s, worker, now)
    IN  IF r.err # Nil THEN [s |-> s, key |-> NoKey, spec |-> NoSpec, err |-> r.err]
        ELSE IF r.job = NoJob
        THEN [s |-> s, key |-> NoKey, spec |-> NoSpec, err |-> errNoJobAvailable]
        ELSE [s |-> r.s, key |-> [id |-> r.job, epoch |-> s.epochs[r.job]],
              spec |-> s.jobs[r.job].spec, err |-> Nil]

\* assignJob(workerID): no job while observing, else the job assign returns
assignJob(s, obs, worker, now) ==
    LET r == assign(s, worker, now)
    IN  IF ~obs THEN [s |-> s, key |-> NoKey, spec |-> NoSpec, err |-> errNoJobAvailable]
        ELSE IF r.err # Nil THEN [s |-> s, key |-> NoKey, spec |-> NoSpec, err |-> r.err]
        ELSE IF r.job = NoJob
        THEN [s |-> s, key |-> NoKey, spec |-> NoSpec, err |-> errNoJobAvailable]
        ELSE [s |-> r.s, key |-> [id |-> r.job, epoch |-> s.epochs[r.job]],
              spec |-> s.jobs[r.job].spec, err |-> Nil]

\* the holders of the jobs of a schedule in which no assign call is under way
Holders(s) ==
    [id \in Ids |-> IF id \in DOMAIN s.jobs /\ s.jobs[id].assignee # NoWorker
                    THEN {s.jobs[id].assignee} ELSE {}]

UpdateJob(key, worker, done, spec) ==
    LET r == updateJob(Sched, observationComplete, key, worker, done, spec, clock)
    IN  /\ Store(r.s)
        /\ handed' = Holders(r.s)
        /\ Frame

AssignJob(worker) ==
    LET r == assignJob(Sched, observationComplete, worker, clock)
    IN  /\ Store(r.s)
        /\ handed' = Holders(r.s)
        /\ Frame

\* mutant: the flag is flipped, whatever it was
ObservationFlip ==
    /\ observationComplete' = ~observationComplete
    /\ UNCHANGED <<tableVars, clock, callVars, completed, traceVars, genVars, libVars>>

\* mutant: the window never ends
ObservationNever ==
    /\ FALSE
    /\ UNCHANGED vars

\* the observation window ends
ObservationDone ==
    /\ ~observationComplete
    /\ observationComplete' = TRUE
    /\ UNCHANGED <<tableVars, clock, callVars, completed, traceVars, genVars, libVars>>

\* the workers call assignJob and updateJob, the job generator addOrUpdate and
\* clearExpiredLeases
NextSched ==
    \/ \E worker \in WorkerArgs : AssignJob(worker)
    \/ \E key \in Keys, worker \in WorkerArgs, done \in BOOLEAN, spec \in Specs :
          UpdateJob(key, worker, done, spec)
    \/ ObservationDone
    \/ \E id \in Ids, jobTime \in SortTimes, spec \in Specs : AddOrUpdate(id, jobTime, spec)
    \/ \E lag \in 0..MaxLag, order \in Orders(DOMAIN jobs) :
          clock - lag >= 0 /\ ClearExpiredLeases(clock - lag, order)
    \/ Tick

SpecSched == Init /\ [][NextSched]_vars

\* The end of the observation window is triggered by time, not by a caller: the
\* scheduler gets to it whatever the workers and the generator do.
SpecSchedFair == SpecSched /\ WF_vars(ObservationDone)

\* ------------------------------------------------------------------ scheduler, with
\* the history of the completions it accepted

\* updateJob as in UpdateJob; an accepted completion is remembered
ClientUpdateJob(key, worker, done, spec) ==
    LET r == updateJob(Sched, observationComplete, key, worker, done, spec, clock)
    IN  /\ Store(r.s)
        /\ handed' = Holders(r.s)
        /\ completed' = IF done /\ r.err = Nil
                        THEN [completed EXCEPT ![key.id] = [epoch |-> key.epoch, worker |-> worker]]
                        ELSE completed
        /\ UNCHANGED <<clock, mu, pc, local, observationComplete, traceVars, genVars, libVars>>

\* as NextSched, the callers of updateJob being workers with a name and the
\* generator giving a job the commitRecTs of its spec as the job time
NextClient ==
    \/ \E worker \in WorkerArgs : AssignJob(worker)
    \/ \E key \in Keys, worker \in Workers, done \in BOOLEAN, spec \in Specs :
          ClientUpdateJob(key, worker, done, spec)
    \/ ObservationDone
    \/ \E id \in Ids, jobTime \in SortTimes : LeaseAddOrUpdate(id, jobTime)
    \/ \E lag \in 0..MaxLag, order \in Orders(DOMAIN jobs) :
          clock - lag >= 0 /\ ClearExpiredLeases(clock - lag, order)
    \/ Tick

SpecClient == Init /\ [][NextClient]_vars

\* ------------------------------------------------------------------ job generator
\* updateSchedule, the sweep of the job generator over the partitions of the
\* topic, with the log it reads and the gauges it publishes.

errFetch == "fetching log metadata failed"

\* the id of the job of a partition that starts at an offset
JobId(p, offset) ==
    CASE p = 0 /\ offset = 0 -> "ingest/0/0"
      [] p = 0 /\ offset = 1 -> "ingest/0/1"
      [] p = 0 /\ offset = 2 -> "ingest/0/2"
      [] p = 0 /\ offset = 3 -> "ingest/0/3"
      [] p = 1 /\ offset = 0 -> "ingest/1/0"
      [] p = 1 /\ offset = 1 -> "ingest/1/1"
      [] p = 1 /\ offset = 2 -> "ingest/1/2"
      [] p = 1 /\ offset = 3 -> "ingest/1/3"

GenIds == {JobId(p, offset) : p \in Partitions, offset \in 0..MaxOffset}

\* the ids of the jobs of a partition
PartitionIds(p) == {JobId(p, offset) : offset \in 0..MaxOffset}

\* the timestamp of the record at an offset of a partition
RecordTs(p, offset) == p + offset + 1

\* LastCommitted: the committed offset of the partition and the timestamp of the
\* last committed record, the zero time when nothing is committed
LastCommitted(lg, p) ==
    [offset |-> lg[p].committed,
     timestamp |-> IF lg[p].committed = 0 THEN 0 ELSE RecordTs(p, lg[p].committed - 1)]

\* DescribePartitions: the start and end offset of every partition
DescribePartitions(lg) == [p \in Partitions |-> [start |-> lg[p].start, end |-> lg[p].end]]

\* the job spec of the uncommitted range of a partition
RangeSpec(lg, p) ==
    [partition |-> p, startOffset |-> LastCommitted(lg, p).offset,
     endOffset |-> lg[p].end, commitRecTs |-> LastCommitted(lg, p).timestamp]

\* steps 3 and 4 of the sweep for the partitions from p on
RECURSIVE addRanges(_, _, _, _)
addRanges(s, lg, now, p) ==
    IF p \notin Partitions THEN s
    ELSE LET c == LastCommitted(lg, p)
             s1 == IF lg[p].end > c.offset
                   THEN addOrUpdateEpoch(s, JobId(p, c.offset), c.timestamp, RangeSpec(lg, p), now)
                   ELSE s
         IN  addRanges(s1, lg, now, p + 1)

\* steps 3 and 4 of the sweep for the partitions before p only
RECURSIVE addRangesBefore(_, _, _, _, _)
addRangesBefore(s, lg, now, p, stop) ==
    IF p \notin Partitions \/ p >= stop THEN s
    ELSE LET c == LastCommitted(lg, p)
             s1 == IF lg[p].end > c.offset
                   THEN addOrUpdateEpoch(s, JobId(p, c.offset), c.timestamp, RangeSpec(lg, p), now)
                   ELSE s
         IN  addRangesBefore(s1, lg, now, p + 1, stop)

\* mutant: the gauges show the committed offset as the end offset
updateScheduleGauges(s, obs, lg, g, now, order, failAt) ==
    IF failAt \in Partitions THEN [s |-> s, gauges |-> g, err |-> errFetch]
    ELSE [s |-> IF obs THEN addRanges(clearExpiredLeases(s, now, order), lg, now, 0) ELSE s,
          gauges |-> [p \in Partitions |-> [start |-> lg[p].start, end |-> lg[p].committed]],
          err |-> Nil]

\* mutant: the partitions fetched before the failure are applied
updateSchedulePartial(s, obs, lg, g, now, order, failAt) ==
    IF failAt \in Partitions
    THEN [s |-> IF obs THEN addRangesBefore(s, lg, now, 0, failAt) ELSE s,
          gauges |-> g, err |-> errFetch]
    ELSE [s |-> IF obs THEN addRanges(clearExpiredLeases(s, now, order), lg, now, 0) ELSE s,
          gauges |-> DescribePartitions(lg), err |-> Nil]

\* mutant: a partition with nothing beyond the committed offset gets a job too
updateScheduleEmptyRange(s, obs, lg, g, now, order, failAt) ==
    IF failAt \in Partitions THEN [s |-> s, gauges |-> g, err |-> errFetch]
    ELSE [s |-> IF obs
                THEN addRanges(clearExpiredLeases(s, now, order),
                               [p \in Partitions |->
                                    IF lg[p].end = lg[p].committed /\ lg[p].end < MaxOffset
                                    THEN [lg[p] EXCEPT !.end = @ + 1] ELSE lg[p]],
                               now, 0)
                ELSE s,
          gauges |-> DescribePartitions(lg), err |-> Nil]

\* updateSchedule: one sweep. The metadata of all partitions is fetched first, and
\* a failure at a partition (failAt) skips the sweep; else the gauges are
\* published, and with the observation complete the expired leases are cleared
\* and every partition with records beyond the committed offset is added or updated.
updateSchedule(s, obs, lg, g, now, order, failAt) ==
    IF failAt \in Partitions THEN [s |-> s, gauges |-> g, err |-> errFetch]
    ELSE [s |-> IF obs THEN addRanges(clearExpiredLeases(s, now, order), lg, now, 0) ELSE s,
          gauges |-> DescribePartitions(lg), err |-> Nil]

\* a record is produced to a partition
Produce(p) ==
    /\ log[p].end < MaxOffset
    /\ log' = [log EXCEPT ![p].end = @ + 1]
    /\ UNCHANGED <<tableVars, clock, callVars, observationComplete, completed, traceVars, gauges, libVars>>

\* the retention of the log deletes the first record of a partition
Retain(p) ==
    /\ log[p].start < log[p].end
    /\ log' = [log EXCEPT ![p].start = @ + 1]
    /\ UNCHANGED <<tableVars, clock, callVars, observationComplete, completed, traceVars, gauges, libVars>>

UpdateSchedule(order, failAt) ==
    LET r == updateSchedule(Sched, observationComplete, log, gauges, clock, order, failAt)
    IN  /\ observationComplete /\ failAt \notin Partitions =>
               \A id \in DOMAIN jobs : expired(jobs[id], clock) => jobs[id].failCount < MaxFail
        /\ Store(r.s)
        /\ gauges' = r.gauges
        /\ UNCHANGED <<clock, callVars, observationComplete, completed, traceVars, log, libVars>>

\* a worker takes the next job
GenAssignJob(worker) ==
    LET r == assignJob(Sched, observationComplete, worker, clock)
    IN  /\ r.err = Nil
        /\ Store(r.s)
        /\ UNCHANGED <<clock, callVars, observationComplete, completed, traceVars, genVars, libVars>>

\* the holder of the job of a partition completes it, and the offsets of the job
\* are committed
GenCompleteJob(p, worker) ==
    LET id == JobId(p, log[p].committed)
    IN  /\ id \in DOMAIN jobs
        /\ LET r == updateJob(Sched, observationComplete,
                              [id |-> id, epoch |-> epochs[id]], worker, TRUE,
                              jobs[id].spec, clock)
           IN  /\ r.err = Nil
               /\ jobs[id].assignee = worker
               /\ Store(r.s)
               /\ log' = [log EXCEPT ![p].committed = jobs[id].spec.endOffset]
        /\ UNCHANGED <<clock, callVars, observationComplete, completed, traceVars, gauges, libVars>>

InitGen ==
    /\ jobs = << >>
    /\ outstanding = <<>>
    /\ epochs = [id \in GenIds |-> 0]
    /\ clock = 0
    /\ mu = NoWorker
    /\ pc = [w \in Workers |-> "idle"]
    /\ local = [w \in Workers |-> NoJob]
    /\ handed = [id \in Ids |-> {}]
    /\ observationComplete = FALSE
    /\ completed = [id \in Ids |-> NoDone]
    /\ created = <<>>
    /\ expiries = [id \in Ids |-> 0]
    /\ log = [p \in Partitions |-> [start |-> 0, end |-> 0, committed |-> 0]]
    /\ gauges = [p \in Partitions |-> NoGauge]
    /\ queues = [c \in Components |-> 0]
    /\ stream = <<>>

NextGen ==
    \/ \E p \in Partitions : Produce(p)
    \/ \E p \in Partitions : Retain(p)
    \/ \E order \in Orders(DOMAIN jobs), failAt \in Partitions \cup {NoPartition} :
           UpdateSchedule(order, failAt)
    \/ \E worker \in Workers : GenAssignJob(worker)
    \/ \E p \in Partitions, worker \in Workers : GenCompleteJob(p, worker)
    \/ ObservationDone
    \/ Tick

SpecGen == InitGen /\ [][NextGen]_vars

\* ------------------------------------------------------------------ dimensionalQueueBroker

queueOrder == <<"none", "ingester", "store-gateway", "ingester-and-store-gateway">>
NoComponent == ""
WorkerIDs == (0 - MaxWorkerID)..MaxWorkerID

\* a % n of Go: the quotient is truncated towards zero, the result has the sign of a
GoRem(a, n) == IF a >= 0 THEN a % n ELSE 0 - ((0 - a) % n)

\* what the queue of a component answers to dequeueRequestForQuerier: a tenant, no
\* tenant, an error, or a tenant together with an error
Answers(qs) ==
    {a \in [Components -> {"tenant", "none", "error", "both"}] :
        \A c \in Components : a[c] \in {"tenant", "both"} => qs[c] > 0}

\* the values dequeueRequestForQuerier has before any queue was tried
NoAnswer == [component |-> NoComponent, tenant |-> FALSE, err |-> FALSE]

\* the answer of the queue of component c
QueueAnswer(a, c) ==
    [component |-> c, tenant |-> a[c] \in {"tenant", "both"}, err |-> a[c] \in {"error", "both"}]

\* the loop of dequeueRequestForQuerier, from try i on
RECURSIVE dequeueLoop(_, _, _, _, _, _)
dequeueLoop(qs, a, queueIndex, i, last, tried) ==
    IF i >= Cardinality(DOMAIN qs)
    THEN [result |-> last, tried |-> tried, queues |-> qs, panic |-> FALSE]
    ELSE LET c == queueOrder[queueIndex + 1]
             r == QueueAnswer(a, c)
         IN  IF r.tenant /\ ~r.err
             THEN [result |-> r, tried |-> Append(tried, c),
                   queues |-> [qs EXCEPT ![c] = @ - 1], panic |-> FALSE]
             ELSE dequeueLoop(qs, a, (queueIndex + 1) % Len(queueOrder), i + 1, r,
                              Append(tried, c))

\* dequeueRequestForQuerier(lastTenantIndex, querierID, workerID): an index below
\* zero into queueOrder is a run-time panic
dequeueRequestForQuerier(qs, a, workerID) ==
    LET queueIndex == GoRem(workerID, Len(queueOrder))
    IN  IF queueIndex < 0 \/ queueIndex >= Len(queueOrder)
        THEN [result |-> NoAnswer, tried |-> <<>>, queues |-> qs, panic |-> TRUE]
        ELSE dequeueLoop(qs, a, queueIndex, 0, NoAnswer, <<>>)

\* isEmpty: the named result starts as false
RECURSIVE isEmptyLoop(_, _, _)
isEmptyLoop(qs, order, empty) ==
    IF order = <<>> THEN empty
    ELSE isEmptyLoop(qs, Tail(order), (qs[Head(order)] = 0) /\ empty)

isEmpty(qs, order) == isEmptyLoop(qs, order, FALSE)

RECURSIVE itemCountLoop(_, _, _)
itemCountLoop(qs, order, count) ==
    IF order = <<>> THEN count
    ELSE itemCountLoop(qs, Tail(order), count + qs[Head(order)])

itemCount(qs, order) == itemCountLoop(qs, order, 0)

BrokerFrame ==
    UNCHANGED <<tableVars, clock, callVars, observationComplete, completed, traceVars,
                genVars, stream>>

\* enqueueRequestBack, enqueueRequestFront: the request goes to the queue of its
\* component
EnqueueRequest(c) ==
    /\ queues[c] < MaxItems
    /\ queues' = [queues EXCEPT ![c] = @ + 1]
    /\ BrokerFrame

DequeueRequestForQuerier(workerID, a) ==
    /\ queues' = dequeueRequestForQuerier(queues, a, workerID).queues
    /\ BrokerFrame

NextBroker ==
    \/ \E c \in Components : EnqueueRequest(c)
    \/ \E workerID \in WorkerIDs, a \in Answers(queues) : DequeueRequestForQuerier(workerID, a)

SpecBroker == Init /\ [][NextBroker]_vars

\* ------------------------------------------------------------------ batchStream

ValNone == "none"
ValFloat == "float"
ValHistogram == "histogram"
ValFloatHistogram == "floathistogram"
ValueTypes == {ValFloat, ValHistogram, ValFloatHistogram}

\* a sample is a timestamp and a value
SampleValues == {"x", "y"}
Samples == [t : 1..MaxTs, v : SampleValues]

\* the sequences of samples with strictly ascending timestamps
RECURSIVE AscendingFrom(_)
AscendingFrom(first) ==
    {<<>>} \cup UNION {{<<s>> \o q : q \in AscendingFrom(s.t + 1)} :
                          s \in {x \in Samples : x.t >= first}}

\* a chunk.Batch at its first sample: the batches merge is called with
Batches ==
    {[valueType |-> vt, samples |-> q, index |-> 0] :
        vt \in ValueTypes, q \in AscendingFrom(1) \ {<<>>}}

\* batchStream.hasNext, curr and next
hasNext(bs) == IF Len(bs) > 0 THEN bs[1].valueType ELSE ValNone

curr(bs) == bs[1]

next(bs) ==
    LET b == [bs[1] EXCEPT !.index = @ + 1]
    IN  IF b.index >= Len(b.samples) THEN Tail(bs) ELSE <<b>> \o Tail(bs)

\* chunk.Batch: HasNext, AtTime, the sample at the index, Next
BatchHasNext(b) == IF b.index < Len(b.samples) THEN b.valueType ELSE ValNone

AtTime(b) == b.samples[b.index + 1].t

At(b) == b.samples[b.index + 1]

BatchNext(b) == [b EXCEPT !.index = @ + 1]

\* populate: the sample at the index of the batch goes to the last batch of the
\* result, or to a new batch when that one is full or of another value type
populate(res, b, valueType, size) ==
    LET last == res[Len(res)]
    IN  IF Len(last.samples) = 0
        THEN [res EXCEPT ![Len(res)] = [valueType |-> valueType, samples |-> <<At(b)>>, index |-> 0]]
        ELSE IF Len(last.samples) = size \/ last.valueType # valueType
        THEN Append(res, [valueType |-> valueType, samples |-> <<At(b)>>, index |-> 0])
        ELSE [res EXCEPT ![Len(res)].samples = Append(@, At(b))]

\* mutant: of two samples at the same time the left one is always taken
takeLeft(lt, rt) == TRUE

\* of two samples at the same time, the left one is taken unless it is a float and
\* the right one a histogram
takesLeft(lt, rt) == lt = rt \/ lt # ValFloat

\* the three loops of merge
RECURSIVE mergeLoop(_, _, _, _)
mergeLoop(bs, batch, res, size) ==
    LET lt == hasNext(bs)
        rt == BatchHasNext(batch)
    IN  IF lt # ValNone /\ rt # ValNone
        THEN IF AtTime(curr(bs)) < AtTime(batch)
             THEN mergeLoop(next(bs), batch, populate(res, curr(bs), lt, size), size)
             ELSE IF AtTime(batch) < AtTime(curr(bs))
             THEN mergeLoop(bs, BatchNext(batch), populate(res, batch, rt, size), size)
             ELSE IF takesLeft(lt, rt)
             THEN mergeLoop(next(bs), BatchNext(batch), populate(res, curr(bs), lt, size), size)
             ELSE mergeLoop(next(bs), BatchNext(batch), populate(res, batch, rt, size), size)
        ELSE IF lt # ValNone
        THEN mergeLoop(next(bs), batch, populate(res, curr(bs), lt, size), size)
        ELSE IF rt # ValNone
        THEN mergeLoop(bs, BatchNext(batch), populate(res, batch, rt, size), size)
        ELSE res

\* merge(batch, size): the result is built in batchesBuf, from its first batch on,
\* and becomes the batches of the stream
merge(bs, batch, size) ==
    mergeLoop(bs, batch, <<[valueType |-> ValNone, samples |-> <<>>, index |-> 0]>>, size)

StreamFrame ==
    UNCHANGED <<tableVars, clock, callVars, observationComplete, completed, traceVars,
                genVars, queues>>

Merge(batch, size) ==
    /\ stream' = merge(stream, batch, size)
    /\ StreamFrame

\* the reader of the stream steps over a sample
StreamNext ==
    /\ stream # <<>>
    /\ stream' = next(stream)
    /\ StreamFrame

NextStream ==
    \/ \E batch \in Batches, size \in 1..MaxSize : Merge(batch, size)
    \/ StreamNext

SpecStream == Init /\ [][NextStream]_vars

\* ------------------------------------------------------------------ properties

\* how often id is in the list
Count(id, list) == Cardinality({i \in 1..Len(list) : list[i] = id})

Unassigned == {id \in DOMAIN jobs : jobs[id].assignee = NoWorker}
Assigned == {id \in DOMAIN jobs : jobs[id].assignee # NoWorker}

\* the times at which a clearExpiredLeases that gets the lock now may have read the clock
SweepTimes == {t \in 0..clock : clock - t <= MaxLag}

\* C1: every job of the table with an empty assignee is in the outstanding list
\* exactly once, and no job with an assignee is in the list.
C1_UnassignedExactlyOnce ==
    /\ \A id \in Unassigned : Count(id, outstanding) = 1
    /\ \A id \in Assigned : Count(id, outstanding) = 0

\* a job reclaimed after its lease expired is in the list next to a job that is assigned
C1_Witness ==
    \E a \in Assigned, u \in Unassigned : jobs[u].failCount > 0 /\ clock > jobs[u].leaseExpiry

\* C3: for a non-empty worker, assign returns an unassigned job with the smallest
\* sortTime of all unassigned jobs, and no job (and no error) exactly when the
\* outstanding list is empty.
C3_AssignReturnsSmallest ==
    \A worker \in Workers :
        LET r == assign(Sched, worker, clock)
        IN  /\ r.err = Nil
            /\ (r.job = NoJob) <=> (outstanding = <<>>)
            /\ (r.job = NoJob) <=> (Unassigned = {})
            /\ r.job # NoJob =>
                  /\ r.job \in Unassigned
                  /\ r.s.jobs[r.job].assignee = worker
                  /\ \A u \in Unassigned : jobs[r.job].sortTime <= jobs[u].sortTime

\* two unassigned jobs with different job times, the earlier one a job that was
\* handed out before and reclaimed: assign returns it
C3_Witness ==
    /\ Len(outstanding) = 2
    /\ jobs[outstanding[1]].sortTime < jobs[outstanding[2]].sortTime
    /\ jobs[outstanding[1]].failCount > 0
    /\ assign(Sched, "w0", clock).job = outstanding[1]

\* C4: the outstanding list is sorted ascending by sortTime in every state, that
\* is after every call of every operation.
C4_OutstandingSorted ==
    \A i, k \in 1..Len(outstanding) :
        i < k => jobs[outstanding[i]].sortTime <= jobs[outstanding[k]].sortTime

\* the list holds two jobs with different job times, and the job created second is first
C4_Witness ==
    /\ Len(outstanding) = 2
    /\ jobs[outstanding[1]].sortTime < jobs[outstanding[2]].sortTime
    /\ jobs[outstanding[1]].leaseExpiry > jobs[outstanding[2]].leaseExpiry
    /\ jobs[outstanding[1]].failCount = 0 /\ jobs[outstanding[2]].failCount = 0

\* what renewLease and complete return for a worker that does not hold the job
RefusedWith(id, worker, err) ==
    LET r == renewLease(Sched, id, worker, clock)
        c == complete(Sched, id, worker)
    IN  /\ r.err = err /\ r.s = Sched
        /\ c.err = err /\ c.s = Sched

\* C5 as stated: renewLease or complete for a known job by any worker value that is
\* not the job's assignee, the empty string included, fails with JobNotAssigned and
\* changes nothing.
C5_AnyOtherWorkerNotAssigned ==
    \A id \in DOMAIN jobs, worker \in WorkerArgs :
        jobs[id].assignee # worker => RefusedWith(id, worker, errJobNotAssigned)

\* C5 amended: renewLease or complete for a known job by a non-empty worker that is
\* not the job's assignee fails with JobNotAssigned, by the empty worker with the
\* empty-worker error, and in both cases the table is unchanged.
C5_OtherWorkerRefused ==
    \A id \in DOMAIN jobs, worker \in WorkerArgs :
        jobs[id].assignee # worker =>
            RefusedWith(id, worker, IF worker = NoWorker THEN errWorkerEmpty ELSE errJobNotAssigned)

\* a job that was reclaimed and handed out again: the other worker and the empty
\* worker are refused
C5_Witness ==
    \E id \in Assigned :
        /\ jobs[id].failCount > 0
        /\ jobs[id].assignee = "w1"
        /\ renewLease(Sched, id, "w0", clock).err = errJobNotAssigned
        /\ complete(Sched, id, "w0").err = errJobNotAssigned
        /\ renewLease(Sched, id, NoWorker, clock).err = errWorkerEmpty

\* the job records of the schedule after clearExpiredLeases at time now
Swept(now, order) == clearExpiredLeases(Sched, now, order).jobs

SameLease(j, k) ==
    j.assignee = k.assignee /\ j.leaseExpiry = k.leaseExpiry /\ j.failCount = k.failCount

\* C6 as stated: after clearExpiredLeases at time now every job whose leaseExpiry was
\* before now is unassigned with failCount one higher, and every job whose
\* leaseExpiry is at or after now keeps assignee, leaseExpiry and failCount.
C6_EveryPastExpiryReclaimed ==
    \A now \in SweepTimes, order \in Orders(DOMAIN jobs), id \in DOMAIN jobs :
        LET after == Swept(now, order)[id]
        IN  IF jobs[id].leaseExpiry < now
            THEN after.assignee = NoWorker /\ after.failCount = jobs[id].failCount + 1
            ELSE SameLease(after, jobs[id])

\* C6 amended: after clearExpiredLeases at time now every assigned job whose
\* leaseExpiry was before now is unassigned with failCount one higher and is in the
\* outstanding list; every other job (unassigned, or with leaseExpiry at or after
\* now) keeps assignee, leaseExpiry and failCount; no record is added or removed.
C6_AssignedPastExpiryReclaimed ==
    \A now \in SweepTimes, order \in Orders(DOMAIN jobs) :
        LET r == clearExpiredLeases(Sched, now, order)
        IN  /\ DOMAIN r.jobs = DOMAIN jobs
            /\ \A id \in DOMAIN jobs :
                  IF jobs[id].assignee # NoWorker /\ jobs[id].leaseExpiry < now
                  THEN /\ r.jobs[id] = [jobs[id] EXCEPT !.assignee = NoWorker, !.failCount = @ + 1]
                       /\ Count(id, r.outstanding) = 1
                  ELSE r.jobs[id] = jobs[id]

\* a sweep that reclaims one job and leaves alone a job whose lease ends now
C6_Witness ==
    \E a, b \in Assigned, order \in Orders(DOMAIN jobs) :
        /\ jobs[a].leaseExpiry < clock
        /\ jobs[b].leaseExpiry = clock
        /\ Swept(clock, order)[a].failCount = jobs[a].failCount + 1
        /\ Swept(clock, order)[b] = jobs[b]

C9_AssignedJobNotUpdated ==
    \A id \in DOMAIN jobs, jobTime \in SortTimes, spec \in Specs :
        LET r == addOrUpdate(Sched, id, jobTime, spec, clock)
        IN  IF jobs[id].assignee # NoWorker
            THEN r = Sched
            ELSE /\ r.jobs = [jobs EXCEPT ![id].spec = spec, ![id].sortTime = jobTime]
                 /\ \A x \in DOMAIN jobs : Count(x, r.outstanding) = Count(x, outstanding)

\* an assigned job for which the generator has a longer range, and an unassigned job
\* whose range it extends
C9_Witness ==
    \E a \in Assigned, u \in Unassigned, spec \in Specs :
        /\ spec.endOffset > jobs[a].spec.endOffset
        /\ spec.endOffset > jobs[u].spec.endOffset
        /\ addOrUpdate(Sched, a, spec.commitRecTs, spec, clock).jobs[a].spec = jobs[a].spec
        /\ addOrUpdate(Sched, u, spec.commitRecTs, spec, clock).jobs[u].spec = spec

\* C10: a second addOrUpdate with the same id, job time and spec, at the same or a
\* later time, leaves the table as the first one left it: the records, the order of
\* the outstanding list and the epochs.
C10_AddOrUpdateIdempotent ==
    \A id \in Ids, jobTime \in SortTimes, spec \in Specs, later \in clock..MaxTime :
        LET s1 == addOrUpdateEpoch(Sched, id, jobTime, spec, clock)
        IN  addOrUpdateEpoch(s1, id, jobTime, spec, later) = s1

\* a first call that moves an unassigned job in the list, and a first call that
\* creates a job: the second call changes neither
C10_Witness ==
    \E id \in Unassigned, new \in Ids \ DOMAIN jobs, spec \in Specs :
        LET s1 == addOrUpdateEpoch(Sched, id, spec.commitRecTs, spec, clock)
            n1 == addOrUpdateEpoch(Sched, new, spec.commitRecTs, spec, clock)
        IN  /\ clock < MaxTime
            /\ s1.jobs # jobs
            /\ addOrUpdateEpoch(s1, id, spec.commitRecTs, spec, clock + 1) = s1
            /\ n1.epochs[new] = 2
            /\ addOrUpdateEpoch(n1, new, spec.commitRecTs, spec, clock + 1) = n1

\* C2: concurrent assign calls exclude each other and the other operations: a call
\* inside assign holds the lock, the job it read as head of the list is still the
\* head when it pops it and still unassigned when it takes it, a job is handed to
\* at most one worker between its creation or last reclaim and its completion, and
\* that worker is its assignee.
C2_AssignExclusive ==
    /\ \A w \in Workers :
          /\ pc[w] # "idle" => mu = w
          /\ pc[w] # "panic"
          /\ pc[w] = "head" =>
                outstanding # <<>> /\ Head(outstanding) = local[w]
          /\ pc[w] \in {"head", "popped"} =>
                local[w] \in DOMAIN jobs /\ jobs[local[w]].assignee = NoWorker
          /\ pc[w] \in {"popped", "leased"} => Count(local[w], outstanding) = 0
          /\ pc[w] = "leased" =>
                local[w] \in DOMAIN jobs /\ jobs[local[w]].assignee = w
    /\ \A id \in Ids :
          /\ Cardinality(handed[id]) <= 1
          /\ handed[id] \subseteq (IF id \in DOMAIN jobs THEN {jobs[id].assignee} ELSE {})

\* each worker was handed a job, one of them a job reclaimed from an earlier holder,
\* and a third assign call holds the lock
C2_Witness ==
    \E a, b \in Ids :
        /\ handed[a] = {"w0"}
        /\ handed[b] = {"w1"}
        /\ jobs[b].failCount > 0
        /\ pc["w0"] = "locked"

C11_NewJobSortedByCommitRecTs ==
    \A id \in Ids \ DOMAIN jobs, jobTime \in SortTimes, spec \in Specs :
        LET r == addOrUpdate(Sched, id, jobTime, spec, clock)
        IN  /\ DOMAIN r.jobs = DOMAIN jobs \cup {id}
            /\ \A x \in DOMAIN jobs : r.jobs[x] = jobs[x]
            /\ r.jobs[id].assignee = NoWorker
            /\ r.jobs[id].failCount = 0
            /\ r.jobs[id].spec = spec
            /\ r.jobs[id].sortTime = spec.commitRecTs
            /\ Count(id, r.outstanding) = 1
            /\ Without(r.outstanding, id) = outstanding
            /\ \A i, k \in 1..Len(r.outstanding) :
                  i < k => r.jobs[r.outstanding[i]].sortTime <= r.jobs[r.outstanding[k]].sortTime

\* C12: renewLease by a worker fails with JobNotFound for an id that is not in the
\* table; by the assignee of the job it succeeds and sets leaseExpiry to now +
\* leaseTime and nothing else, and a further renewLease by the holder, then or
\* later, succeeds again.
C12_RenewLeaseByHolder ==
    \A id \in Ids, worker \in Workers :
        LET r == renewLease(Sched, id, worker, clock)
        IN  /\ id \notin DOMAIN jobs => r = [s |-> Sched, err |-> errJobNotFound]
            /\ (id \in DOMAIN jobs /\ jobs[id].assignee = worker) =>
                  /\ r.err = Nil
                  /\ r.s = [Sched EXCEPT !.jobs[id].leaseExpiry = clock + leaseTime]
                  /\ \A later \in clock..MaxTime :
                        LET r2 == renewLease(r.s, id, worker, later)
                        IN  /\ r2.err = Nil
                            /\ r2.s.jobs[id].leaseExpiry = later + leaseTime
                            /\ renewLease(r2.s, id, worker, later).err = Nil

\* the holder of a job renews a lease that has run out but was not reclaimed, while
\* another id, completed before, is not in the table
C12_Witness ==
    \E id \in Assigned :
        /\ jobs[id].leaseExpiry < clock
        /\ renewLease(Sched, id, jobs[id].assignee, clock).s.jobs[id].leaseExpiry = clock + leaseTime
        /\ \E gone \in Ids \ DOMAIN jobs :
              renewLease(Sched, gone, jobs[id].assignee, clock).err = errJobNotFound
        /\ renewLease(Sched, id, jobs[id].assignee, clock).s.jobs[id].leaseExpiry = clock + leaseTime

\* C13: assign and renewLease (and complete) with the empty worker return the
\* empty-worker error and leave the table as it is, also for an unassigned job,
\* whose assignee is the empty string; no job was handed to the empty worker.
C13_EmptyWorkerRejected ==
    /\ assign(Sched, NoWorker, clock) = [s |-> Sched, job |-> NoJob, err |-> errWorkerEmpty]
    /\ \A id \in Ids :
          /\ renewLease(Sched, id, NoWorker, clock) = [s |-> Sched, err |-> errWorkerEmpty]
          /\ complete(Sched, id, NoWorker) = [s |-> Sched, err |-> errWorkerEmpty]
          /\ NoWorker \notin handed[id]
    /\ \A id \in DOMAIN jobs : jobs[id].assignee = NoWorker => Count(id, outstanding) = 1

\* an unassigned job heads the list and a lease has been handed out: the empty
\* worker gets neither the job nor a renewal or completion of it
C13_Witness ==
    /\ outstanding # <<>>
    /\ Assigned # {}
    /\ jobs[Head(outstanding)].assignee = NoWorker
    /\ assign(Sched, NoWorker, clock).err = errWorkerEmpty
    /\ renewLease(Sched, Head(outstanding), NoWorker, clock).err = errWorkerEmpty
    /\ complete(Sched, Head(outstanding), NoWorker).err = errWorkerEmpty

\* C14: complete by the assignee deletes the record of the job and nothing else;
\* after it renewLease and complete for the id, by any worker, fail with
\* JobNotFound, as does complete for an id that is not in the table.
C14_CompleteDeletes ==
    \A id \in Ids, worker \in Workers :
        LET c == complete(Sched, id, worker)
        IN  /\ id \notin DOMAIN jobs => c = [s |-> Sched, err |-> errJobNotFound]
            /\ (id \in DOMAIN jobs /\ jobs[id].assignee = worker) =>
                  /\ c.err = Nil
                  /\ c.s = [Sched EXCEPT !.jobs = MapDelete(@, id)]
                  /\ id \notin DOMAIN c.s.jobs
                  /\ \A other \in Workers :
                        /\ renewLease(c.s, id, other, clock) = [s |-> c.s, err |-> errJobNotFound]
                        /\ complete(c.s, id, other) = [s |-> c.s, err |-> errJobNotFound]

\* a job of the second epoch is held next to another job: its holder can complete
\* it, and a job completed before is not in the table
C14_Witness ==
    \E id \in Assigned, gone \in Ids \ DOMAIN jobs :
        /\ epochs[gone] > 0
        /\ complete(Sched, id, jobs[id].assignee).err = Nil
        /\ complete(Sched, gone, jobs[id].assignee).err = errJobNotFound
        /\ renewLease(Sched, gone, jobs[id].assignee, clock).err = errJobNotFound

\* the keys and workers of the completions that updateJob accepted last, per id
Completions ==
    {[key |-> [id |-> id, epoch |-> completed[id].epoch], worker |-> completed[id].worker] :
        id \in {x \in Ids : completed[x] # NoDone}}

\* the completion is sent once more, now
Repeated(c, spec) == updateJob(Sched, observationComplete, c.key, c.worker, TRUE, spec, clock)

NoJobAvailable(s) == [s |-> s, key |-> NoKey, spec |-> NoSpec, err |-> errNoJobAvailable]

\* C16: with the window closed, assignJob calls that follow each other (the worker
\* of the first call heartbeating or completing its job in between, no sweep and no
\* generator call) return the unassigned jobs in ascending sortTime order with their
\* key and spec, never a job that is assigned or was completed, and return
\* NoJobAvailable with a zero key and a zero spec once no unassigned job is left.
C16_AssignJobInOrder ==
    observationComplete =>
        \A w1, w2, w3 \in Workers, done \in BOOLEAN :
            LET r1 == assignJob(Sched, TRUE, w1, clock)
                u  == updateJob(r1.s, TRUE, r1.key, w1, done, r1.spec, clock)
                r2 == assignJob(u.s, TRUE, w2, clock)
                r3 == assignJob(r2.s, TRUE, w3, clock)
                Fresh(r, s) == /\ r.key.id \in DOMAIN s.jobs
                               /\ s.jobs[r.key.id].assignee = NoWorker
                               /\ r.key.epoch = s.epochs[r.key.id]
                               /\ r.spec = s.jobs[r.key.id].spec
                               /\ \A x \in DOMAIN s.jobs :
                                     s.jobs[x].assignee = NoWorker =>
                                         s.jobs[r.key.id].sortTime <= s.jobs[x].sortTime
            IN  /\ Unassigned = {} => r1 = NoJobAvailable(Sched)
                /\ Unassigned # {} =>
                      /\ r1.err = Nil /\ Fresh(r1, Sched)
                      /\ r1.s.jobs[r1.key.id].assignee = w1
                      /\ u.err = Nil
                      /\ Cardinality(Unassigned) = 1 => r2 = NoJobAvailable(u.s)
                      /\ Cardinality(Unassigned) > 1 =>
                            /\ r2.err = Nil /\ Fresh(r2, u.s)
                            /\ r2.key.id # r1.key.id
                            /\ jobs[r1.key.id].sortTime <= jobs[r2.key.id].sortTime
                      /\ Cardinality(Unassigned) = 2 => r3 = NoJobAvailable(r2.s)

\* the window is closed and two jobs of different sortTime are unassigned, the
\* later one created first: two assignJob calls return them in sortTime order, a
\* third finds no job
C16_Witness ==
    /\ observationComplete
    /\ Len(outstanding) = 2
    /\ jobs[outstanding[1]].sortTime < jobs[outstanding[2]].sortTime
    /\ jobs[outstanding[1]].leaseExpiry > jobs[outstanding[2]].leaseExpiry
    /\ LET r1 == assignJob(Sched, TRUE, "w0", clock)
           r2 == assignJob(r1.s, TRUE, "w1", clock)
       IN  /\ r1.key.id = outstanding[1]
           /\ r2.key.id = outstanding[2]
           /\ assignJob(r2.s, TRUE, "w0", clock) = NoJobAvailable(r2.s)

\* C17: while the observation window is open, assignJob returns NoJobAvailable to
\* every caller and changes nothing, whatever unassigned jobs the table holds.
C17_NoAssignWhileObserving ==
    ~observationComplete =>
        \A worker \in WorkerArgs :
            assignJob(Sched, observationComplete, worker, clock) = NoJobAvailable(Sched)

\* the window is open and the table holds an unassigned job, which assignJob would
\* hand out if the window was closed, and does not
C17_Witness ==
    /\ ~observationComplete
    /\ Unassigned # {}
    /\ assignJob(Sched, TRUE, "w0", clock).key.id = Head(outstanding)
    /\ assignJob(Sched, observationComplete, "w0", clock) = NoJobAvailable(Sched)

C20_ObservedJobNotReassigned ==
    /\ [](observationComplete =>
             \A id \in Assigned, worker \in WorkerArgs :
                 assignJob(Sched, TRUE, worker, clock).key.id # id)
    /\ [][observationComplete =>
             \A id \in Assigned :
                 clock <= jobs[id].leaseExpiry =>
                     \/ /\ id \in DOMAIN jobs'
                        /\ jobs'[id].assignee = jobs[id].assignee
                        /\ jobs'[id].failCount = jobs[id].failCount
                        /\ jobs'[id].leaseExpiry >= jobs[id].leaseExpiry
                     \/ /\ id \notin DOMAIN jobs'
                        /\ \E spec \in Specs :
                              UpdateJob([id |-> id, epoch |-> epochs[id]], jobs[id].assignee,
                                        TRUE, spec)
        ]_vars

\* the window is open and a heartbeat seen in it has put a job into the table, held
\* by its worker, next to an unassigned job: with the window closed, a sweep within
\* the lease leaves the job with its holder, who can renew it, and assignJob gives
\* another worker the unassigned job
C20_Witness ==
    /\ ~observationComplete
    /\ \E id \in Assigned, other \in Unassigned, worker \in Workers :
          LET swept == clearExpiredLeases(Sched, jobs[id].leaseExpiry, <<id, other>>)
              r == assignJob(swept, TRUE, worker, jobs[id].leaseExpiry)
          IN  /\ worker # jobs[id].assignee
              /\ jobs[id].leaseExpiry > clock
              /\ swept.jobs[id] = jobs[id]
              /\ r.key.id = other
              /\ r.s.jobs[id].assignee = jobs[id].assignee
              /\ updateJob(r.s, TRUE, [id |-> id, epoch |-> epochs[id]], jobs[id].assignee,
                           FALSE, jobs[id].spec, jobs[id].leaseExpiry).err = Nil

\* C21: the observation mode changes only from observing to complete: a scheduler
\* whose observation is complete is not observing after any step.
C21_ObservationOneWay ==
    [][observationComplete => observationComplete']_vars

\* the window has closed, and the scheduler has gone on working since: time has
\* passed and a job was handed out
C21_Witness ==
    /\ observationComplete
    /\ clock > 0
    /\ Assigned # {}
    /\ Unassigned # {}

Before(a, b, list) ==
    \E i, k \in 1..Len(list) : i < k /\ list[i] = a /\ list[k] = b

C30_FailCountSinceFirstCreated ==
    \A id \in DOMAIN jobs : jobs[id].failCount = expiries[id]

\* C30: a record is created with failCount 0, also for an id that had a record
\* before; a step that counts an expired lease on the id, and no other step, adds
\* one to the failCount of its record.
C30_FailCountOfRecord ==
    [][\A id \in Ids :
          /\ (id \notin DOMAIN jobs /\ id \in DOMAIN jobs') => jobs'[id].failCount = 0
          /\ (id \in DOMAIN jobs /\ id \in DOMAIN jobs') =>
                jobs'[id].failCount = jobs[id].failCount + (expiries'[id] - expiries[id])
          /\ expiries'[id] # expiries[id] =>
                /\ id \in Assigned
                /\ id \in DOMAIN jobs'
                /\ jobs'[id].assignee = NoWorker
                /\ expiries'[id] = expiries[id] + 1
          /\ (id \in Assigned /\ id \in DOMAIN jobs' /\ jobs'[id].assignee = NoWorker) =>
                expiries'[id] = expiries[id] + 1
      ]_vars

\* a lease on the id expired, its job was completed later and the id was created
\* again: the new record has failCount 0, and a lease on it can expire in turn
C30_Witness ==
    \E id \in DOMAIN jobs :
        /\ epochs[id] = 2
        /\ expiries[id] = 1
        /\ jobs[id].failCount = 0

\* the assigned jobs whose lease has run out at the time
Lapsed(now) == {id \in Assigned : expired(jobs[id], now)}

\* C27 as stated: when the lease of a job has run out, assign treats the job as
\* unassigned: it returns a job, and one whose sortTime is the lowest of the
\* unassigned jobs and the jobs whose lease has run out.
C27_AssignReclaimsExpired ==
    \A worker \in Workers :
        Lapsed(clock) # {} =>
            LET r == assign(Sched, worker, clock)
            IN  /\ r.job # NoJob
                /\ \A id \in Unassigned \cup Lapsed(clock) :
                      jobs[r.job].sortTime <= jobs[id].sortTime

\* C27: assign returns jobs of the outstanding list only: a job that is assigned
\* is not returned and keeps its assignee, failCount and lease, also when its lease
\* has run out, and assign returns no job when the list is empty. Once
\* clearExpiredLeases has run, the jobs it found expired are unassigned, and assign
\* returns a job with the lowest sortTime of them and the other unassigned jobs.
C27_AssignAfterSweep ==
    \A worker \in Workers :
        LET r == assign(Sched, worker, clock)
        IN  /\ r.job \notin Assigned
            /\ \A id \in Assigned : r.s.jobs[id] = jobs[id]
            /\ outstanding = <<>> => r.job = NoJob
            /\ \A now \in SweepTimes, order \in Orders(DOMAIN jobs) :
                  LET swept == clearExpiredLeases(Sched, now, order)
                      r2 == assign(swept, worker, clock)
                  IN  Lapsed(now) # {} =>
                          /\ r2.job # NoJob
                          /\ \A id \in Unassigned \cup Lapsed(now) :
                                swept.jobs[r2.job].sortTime <= swept.jobs[id].sortTime

\* the only job of the table is assigned and its lease has run out: assign finds
\* no job, and returns the job once clearExpiredLeases has run
C27_Witness ==
    /\ outstanding = <<>>
    /\ \E id \in Lapsed(clock) :
          /\ assign(Sched, "w1", clock).job = NoJob
          /\ assign(clearExpiredLeases(Sched, clock, <<id>>), "w1", clock).job = id

\* C28: when clearExpiredLeases has reclaimed a job and assign has given it to
\* another worker, renewLease and complete by the former holder, then and later,
\* fail with JobNotAssigned and leave the table as it is: the job is there, with
\* the assignee and the leaseExpiry of the new holder.
C28_FormerHolderRefused ==
    \A id \in Assigned, now \in SweepTimes, order \in Orders(DOMAIN jobs), worker \in Workers :
        LET former == jobs[id].assignee
            swept == clearExpiredLeases(Sched, now, order)
            r == assign(swept, worker, clock)
        IN  (expired(jobs[id], now) /\ worker # former /\ r.job = id) =>
                /\ r.s.jobs[id].assignee = worker
                /\ r.s.jobs[id].failCount = jobs[id].failCount + 1
                /\ complete(r.s, id, former) = [s |-> r.s, err |-> errJobNotAssigned]
                /\ \A later \in clock..MaxTime :
                      renewLease(r.s, id, former, later) = [s |-> r.s, err |-> errJobNotAssigned]

\* a job was reclaimed from the worker it was handed to first and is now held by
\* another worker, whose lease is running: the former holder is refused
C28_Witness ==
    \E id \in Assigned, former \in Workers :
        /\ jobs[id].failCount = 1
        /\ jobs[id].leaseExpiry > clock
        /\ former # jobs[id].assignee
        /\ handed[id] = {jobs[id].assignee}
        /\ renewLease(Sched, id, former, clock).err = errJobNotAssigned
        /\ complete(Sched, id, former).err = errJobNotAssigned
        /\ renewLease(Sched, id, jobs[id].assignee, clock).err = Nil

\* C29: a call that has taken the lock of the table can always go on, never
\* panics, and gets to its return, where the lock is free again; with an empty
\* list assign returns in its next step, without a job and without a change.
C29_CallsReturn ==
    /\ \A w \in Workers : (mu = w) ~> (mu # w /\ pc[w] = "idle")
    /\ [](\A w \in Workers :
             /\ pc[w] # "panic"
             /\ pc[w] # "idle" <=> mu = w
             /\ mu = w => ENABLED assignRun(w))
    /\ [][\A w \in Workers :
             (pc[w] = "locked" /\ outstanding = <<>> /\ pc'[w] # pc[w]) =>
                 /\ pc'[w] = "idle"
                 /\ mu' = NoWorker
                 /\ UNCHANGED <<tableVars, handed, local>>
        ]_vars

\* a worker holds the lock in its assign call and finds the list empty, the jobs
\* of the table being held, while the other worker has no call under way
C29_Witness ==
    /\ mu = "w0"
    /\ pc["w0"] = "locked"
    /\ pc["w1"] = "idle"
    /\ outstanding = <<>>
    /\ Assigned # {}
    /\ ~ENABLED assignLock("w1")

\* the job of the uncommitted range of a partition, after a sweep that gave r
RangeJob(r, p) == r.s.jobs[JobId(p, log[p].committed)]

\* the sweep gave the partition a job that starts at the committed offset, with the
\* timestamp of the last committed record as commitRecTs and as sortTime
RangeJobStarts(r, p) ==
    /\ JobId(p, log[p].committed) \in DOMAIN r.s.jobs
    /\ RangeJob(r, p).spec.partition = p
    /\ RangeJob(r, p).spec.startOffset = log[p].committed
    /\ RangeJob(r, p).spec.commitRecTs = LastCommitted(log, p).timestamp
    /\ RangeJob(r, p).sortTime = LastCommitted(log, p).timestamp

\* the sweep created no job for the partition
NoJobCreated(r, p) == (PartitionIds(p) \cap DOMAIN r.s.jobs) \subseteq DOMAIN jobs

\* C24 as stated: after a successful sweep with the observation complete, every
\* partition whose end offset is greater than its committed offset has a job in
\* the table that covers [committed offset, end offset), with the timestamp of the
\* last committed record as commitRecTs and sortTime; and for a partition with no
\* records beyond the committed offset the sweep creates no job.
C24_SweepCoversEveryRange ==
    observationComplete =>
        \A order \in Orders(DOMAIN jobs) :
            LET r == updateSchedule(Sched, observationComplete, log, gauges, clock, order,
                                    NoPartition)
            IN  /\ r.err = Nil
                /\ \A p \in Partitions :
                       IF log[p].end > log[p].committed
                       THEN RangeJobStarts(r, p) /\ RangeJob(r, p).spec.endOffset = log[p].end
                       ELSE NoJobCreated(r, p)

\* C24, amended: after a successful sweep with the observation complete, every
\* partition whose end offset is greater than its committed offset has a job in
\* the table that starts at the committed offset, with the timestamp of the last
\* committed record as commitRecTs and sortTime. If the job is unassigned after the
\* sweep it ends at the end offset; if a worker holds it, the sweep left its
\* record as it was, and it ends at or before the end offset. For a partition with
\* no records beyond the committed offset the sweep creates no job.
C24_SweepCoversUnassignedRange ==
    observationComplete =>
        \A order \in Orders(DOMAIN jobs) :
            LET r == updateSchedule(Sched, observationComplete, log, gauges, clock, order,
                                    NoPartition)
            IN  /\ r.err = Nil
                /\ \A p \in Partitions :
                       IF log[p].end > log[p].committed
                       THEN /\ RangeJobStarts(r, p)
                            /\ IF RangeJob(r, p).assignee = NoWorker
                               THEN RangeJob(r, p).spec.endOffset = log[p].end
                               ELSE /\ JobId(p, log[p].committed) \in DOMAIN jobs
                                    /\ RangeJob(r, p) = jobs[JobId(p, log[p].committed)]
                                    /\ RangeJob(r, p).spec.endOffset <= log[p].end
                       ELSE NoJobCreated(r, p)

\* a sweep with the observation complete finds a partition whose job a worker holds
\* while records were produced after the job was made, a partition with a new
\* range, or an unassigned job to extend, and a partition with nothing to do
C24_Witness ==
    /\ observationComplete
    /\ \E p, q \in Partitions :
           LET r == updateSchedule(Sched, observationComplete, log, gauges, clock,
                                   CHOOSE order \in Orders(DOMAIN jobs) : TRUE, NoPartition)
               id == JobId(p, log[p].committed)
           IN  /\ id \in DOMAIN jobs
               /\ jobs[id].assignee # NoWorker
               /\ ~expired(jobs[id], clock)
               /\ jobs[id].spec.endOffset < log[p].end
               /\ r.s.jobs[id] = jobs[id]
               /\ p # q
               /\ log[q].end > log[q].committed
               /\ log[q].committed > 0
               /\ JobId(q, log[q].committed) \notin DOMAIN jobs
               /\ RangeJob(r, q).spec.endOffset = log[q].end
               /\ RangeJob(r, q).sortTime = RecordTs(q, log[q].committed - 1)

Abandoned(id, n) ==
    /\ id \in DOMAIN jobs
    /\ jobs[id].assignee = Gone
    /\ jobs[id].failCount = n
    /\ jobs[id].leaseExpiry < MaxTime

\* the job is unassigned again, with one more expiry counted
Reclaimed(id, n) ==
    /\ id \in Unassigned
    /\ jobs[id].failCount = n + 1
    /\ Count(id, outstanding) = 1

\* the job is assigned again, after the expiry was counted
Reassigned(id, n) ==
    /\ id \in Assigned
    /\ jobs[id].failCount = n + 1

\* C31 as stated: while assign calls keep occurring and time advances, a job
\* that the Gone worker holds is eventually unassigned again with its failCount
\* incremented, and eventually assigned again.
C31_AbandonedReclaimedByAssign ==
    \A id \in Ids, n \in 0..(MaxFail - 1) :
        /\ Abandoned(id, n) ~> Reclaimed(id, n)
        /\ Abandoned(id, n) ~> Reassigned(id, n)

\* C31, amended: while clearExpiredLeases keeps running, assign calls keep
\* occurring and time advances, a job that the Gone worker holds is eventually
\* unassigned again with its failCount incremented, and eventually assigned again.
\* Assign calls without runs of clearExpiredLeases reclaim nothing.
C31_AbandonedReclaimedBySweep ==
    WF_vars(SweepDue) =>
        \A id \in Ids, n \in 0..(MaxFail - 1) :
            /\ Abandoned(id, n) ~> Reclaimed(id, n)
            /\ Abandoned(id, n) ~> Reassigned(id, n)

\* the lease of a job that the Gone worker left has expired and was reclaimed, and
\* the Keen worker holds the job now
C31_Witness ==
    \E id \in Ids :
        /\ id \in DOMAIN jobs
        /\ jobs[id].assignee = Keen
        /\ jobs[id].failCount = 1
        /\ handed[id] = {Keen}

\* the jobs a worker holds on a lease that has not run out
Live == {id \in Assigned : clock <= jobs[id].leaseExpiry}

\* C32: while the lease of a job has not run out, no run of clearExpiredLeases
\* (however late it read the clock) and no addOrUpdate changes the record, no assign
\* call returns the job, and a step takes the job from its worker only when it is
\* the worker's own complete: else the assignee and the failCount stay, and the
\* job stays out of the unassigned list.
C32_RenewedLeaseKept ==
    /\ [](\A id \in Live :
              /\ \A now \in SweepTimes, order \in Orders(DOMAIN jobs) :
                     LET s == clearExpiredLeases(Sched, now, order)
                     IN  s.jobs[id] = jobs[id] /\ Count(id, s.outstanding) = 0
              /\ \A jobTime \in SortTimes, spec \in Specs :
                     addOrUpdate(Sched, id, jobTime, spec, clock) = Sched
              /\ \A worker \in WorkerArgs : assign(Sched, worker, clock).job # id)
    /\ [][\A id \in Live :
              IF id \in DOMAIN jobs'
              THEN /\ jobs'[id].assignee = jobs[id].assignee
                   /\ jobs'[id].failCount = jobs[id].failCount
                   /\ Count(id, outstanding') = 0
                   /\ handed'[id] = handed[id]
              ELSE complete(Sched, id, jobs[id].assignee).s = [jobs |-> jobs',
                       outstanding |-> outstanding', epochs |-> epochs']]_vars

\* a worker holds a job on a lease it renewed after the clock moved, while the
\* lease of the other job has run out: the sweep reclaims the other job only
C32_Witness ==
    \E id, other \in Ids :
        /\ id \in Live
        /\ clock = MaxTime
        /\ jobs[id].leaseExpiry = clock + leaseTime
        /\ other \in Lapsed(clock)
        /\ jobs[other].leaseExpiry < jobs[id].leaseExpiry - leaseTime
        /\ handed[id] = {jobs[id].assignee}
        /\ LET s == clearExpiredLeases(Sched, clock, CHOOSE q \in Orders(DOMAIN jobs) : TRUE)
           IN  /\ s.jobs[id] = jobs[id]
               /\ s.outstanding = <<other>>
               /\ s.jobs[other].failCount = jobs[other].failCount + 1

\* C33: a job stops being assigned, with its record kept, only in a run of
\* clearExpiredLeases; and while the lease of a job has run out and no run has
\* reclaimed it, renewLease by its assignee succeeds and sets leaseExpiry to
\* now + leaseTime, after which a run of clearExpiredLeases, at any time up to the
\* new leaseExpiry, leaves the record and the failCount as they are.
C33_LateRenewalKeepsJob ==
    /\ [](\A id \in Lapsed(clock) :
              LET r == renewLease(Sched, id, jobs[id].assignee, clock)
              IN  /\ r.err = Nil
                  /\ r.s = [Sched EXCEPT !.jobs[id].leaseExpiry = clock + leaseTime]
                  /\ \A now \in 0..(clock + leaseTime), order \in Orders(DOMAIN jobs) :
                         LET c == clearExpiredLeases(r.s, now, order)
                         IN  /\ c.jobs[id] = r.s.jobs[id]
                             /\ c.jobs[id].failCount = jobs[id].failCount
                             /\ Count(id, c.outstanding) = 0)
    /\ [][\A id \in Assigned :
              (id \in DOMAIN jobs' /\ jobs'[id].assignee # jobs[id].assignee) =>
                  /\ id \in Lapsed(clock)
                  /\ jobs'[id].assignee = NoWorker
                  /\ \E now \in SweepTimes, order \in Orders(DOMAIN jobs) :
                         clearExpiredLeases(Sched, now, order) =
                             [jobs |-> jobs', outstanding |-> outstanding', epochs |-> epochs']]_vars

\* the lease of a job ran out more than leaseTime ago and no sweep came: the
\* renewal of the assignee moves leaseExpiry past the clock, and the sweep that
\* would have reclaimed the job leaves it
C33_Witness ==
    \E id \in Lapsed(clock) :
        LET r == renewLease(Sched, id, jobs[id].assignee, clock)
            order == CHOOSE q \in Orders(DOMAIN jobs) : TRUE
        IN  /\ jobs[id].leaseExpiry + leaseTime < clock
            /\ r.err = Nil
            /\ r.s.jobs[id].leaseExpiry = clock + leaseTime
            /\ clearExpiredLeases(Sched, clock, order).jobs[id].assignee = NoWorker
            /\ clearExpiredLeases(r.s, clock, order).jobs[id] = r.s.jobs[id]

\* C34: every entry of the unassigned list is the id of a record of the map, stored
\* under its own id; no id is in the list twice; and no step removes from the map
\* a record that is in the list.
C34_CollectionsInSync ==
    /\ [](/\ \A i \in 1..Len(outstanding) :
                 outstanding[i] \in DOMAIN jobs /\ jobs[outstanding[i]].id = outstanding[i]
          /\ \A i, k \in 1..Len(outstanding) : i # k => outstanding[i] # outstanding[k]
          /\ \A id \in DOMAIN jobs : jobs[id].id = id)
    /\ [][\A i \in 1..Len(outstanding) : outstanding[i] \in DOMAIN jobs']_vars

\* the list holds two jobs, one of them put back by a sweep after its lease ran
\* out, while the record of a job was deleted and made again before
C34_Witness ==
    /\ Len(outstanding) = 2
    /\ \E id \in Ids : Count(id, outstanding) = 1 /\ jobs[id].failCount > 0
    /\ \E id \in Ids : Count(id, outstanding) = 1 /\ epochs[id] > 1

\* C35: an assign call that returns a job changes, of the whole table, the
\* assignee and the leaseExpiry of that job only, to the worker and to
\* now + leaseTime, and takes the job from the head of the unassigned list, the rest
\* of which keeps its order; a call that returns no job, or an error, changes
\* nothing.
C35_AssignFrame ==
    \A worker \in WorkerArgs :
        LET r == assign(Sched, worker, clock)
        IN  IF r.err = Nil /\ r.job # NoJob
            THEN /\ r.s.jobs = [jobs EXCEPT ![r.job].assignee = worker,
                                            ![r.job].leaseExpiry = clock + leaseTime]
                 /\ DOMAIN r.s.jobs = DOMAIN jobs
                 /\ r.s.jobs[r.job].spec = jobs[r.job].spec
                 /\ r.s.jobs[r.job].sortTime = jobs[r.job].sortTime
                 /\ r.s.jobs[r.job].failCount = jobs[r.job].failCount
                 /\ \A id \in DOMAIN jobs \ {r.job} : r.s.jobs[id] = jobs[id]
                 /\ <<r.job>> \o r.s.outstanding = outstanding
                 /\ r.s.epochs = epochs
            ELSE r.s = Sched

\* two jobs wait and the first has a failCount and an old leaseExpiry: assign
\* hands it out, the other job stays in the list; and with an empty worker the
\* call changes nothing
C35_Witness ==
    /\ Len(outstanding) = 2
    /\ jobs[outstanding[1]].failCount > 0
    /\ jobs[outstanding[1]].leaseExpiry < clock
    /\ LET r == assign(Sched, Keen, clock)
       IN  /\ r.job = outstanding[1]
           /\ r.s.outstanding = <<outstanding[2]>>
           /\ r.s.jobs[r.job].failCount = jobs[r.job].failCount
           /\ r.s.jobs[r.job].leaseExpiry = clock + leaseTime
    /\ assign(Sched, NoWorker, clock).err = errWorkerEmpty
    /\ assign(Sched, NoWorker, clock).s = Sched

\* every job of the list is handed to the worker, by assign calls at `now`
RECURSIVE AssignAll(_, _, _)
AssignAll(s, worker, now) ==
    IF s.outstanding = <<>> THEN s ELSE AssignAll(assign(s, worker, now).s, worker, now)

\* n times in a row every job is handed out and left until its lease has run out
\* and a run of clearExpiredLeases comes
RECURSIVE ExpireAll(_, _, _, _, _)
ExpireAll(s, worker, now, order, n) ==
    IF n = 0 THEN s
    ELSE ExpireAll(clearExpiredLeases(AssignAll(s, worker, now), now + leaseTime + 1, order),
                   worker, now + leaseTime + 1, order, n - 1)

\* C36: a run of clearExpiredLeases removes no job, whatever the failCount of the
\* jobs: when the leases of all jobs expire n times in a row, every job is in the
\* map and once in the unassigned list, without assignee, its failCount n higher;
\* and a step takes a job from the map only when it is a complete of the job by
\* its assignee.
C36_ExpiryKeepsJob ==
    /\ [](\A order \in Orders(DOMAIN jobs), worker \in Workers, n \in 1..MaxRounds :
              LET s == ExpireAll(Sched, worker, clock, order, n)
              IN  /\ DOMAIN s.jobs = DOMAIN jobs
                  /\ Len(s.outstanding) = Cardinality(DOMAIN jobs)
                  /\ \A id \in DOMAIN jobs :
                         /\ s.jobs[id].assignee = NoWorker
                         /\ s.jobs[id].failCount = jobs[id].failCount + n
                         /\ \E i \in 1..Len(s.outstanding) : s.outstanding[i] = id)
    /\ [](\A now \in SweepTimes, order \in Orders(DOMAIN jobs) :
              DOMAIN clearExpiredLeases(Sched, now, order).jobs = DOMAIN jobs)
    /\ [][\A id \in DOMAIN jobs :
              id \notin DOMAIN jobs' =>
                  /\ jobs[id].assignee # NoWorker
                  /\ complete(Sched, id, jobs[id].assignee) =
                         [s |-> [jobs |-> jobs', outstanding |-> outstanding',
                                 epochs |-> epochs'], err |-> Nil]]_vars

\* a job was reclaimed once already and is held again: when its lease runs out
\* twice more the job is in the list with failCount 3
C36_Witness ==
    \E id \in Assigned :
        LET order == CHOOSE q \in Orders(DOMAIN jobs) : TRUE
            s == ExpireAll(Sched, Keen, clock, order, 2)
        IN  /\ jobs[id].failCount = 1
            /\ s.jobs[id].failCount = 3
            /\ s.jobs[id].assignee = NoWorker
            /\ Count(id, s.outstanding) = 1

\* the place of a component in queueOrder
OrderIndex(c) == CHOOSE i \in 1..Len(queueOrder) : queueOrder[i] = c

\* C37: for every worker id, dequeueRequestForQuerier starts at the queue at index
\* workerID mod Len(queueOrder), which is an index of queueOrder; it tries the
\* queues in the cyclic order of queueOrder, each at most once; and it returns the
\* answer of the first queue that gives a tenant without error, else the answer of
\* the last queue tried.
C37_DequeueCyclesFromWorkerQueue ==
    \A workerID \in WorkerIDs, a \in Answers(queues) :
        LET r == dequeueRequestForQuerier(queues, a, workerID)
            n == Len(r.tried)
        IN  /\ ~r.panic
            /\ n >= 1 /\ n <= Len(queueOrder)
            /\ r.tried[1] = queueOrder[(workerID % Len(queueOrder)) + 1]
            /\ \A i \in 1..(n - 1) :
                   OrderIndex(r.tried[i + 1]) = (OrderIndex(r.tried[i]) % Len(queueOrder)) + 1
            /\ \A i, k \in 1..n : i # k => r.tried[i] # r.tried[k]
            /\ r.result = QueueAnswer(a, r.tried[n])
            /\ \A i \in 1..(n - 1) : a[r.tried[i]] # "tenant"
            /\ n < Len(queueOrder) => a[r.tried[n]] = "tenant"

\* C38: isEmpty is true exactly when the queue of every component is empty, which
\* is when itemCount is zero.
C38_IsEmptyWhenAllQueuesEmpty ==
    \A order \in Orders(Components) :
        /\ isEmpty(queues, order) <=> (\A c \in Components : queues[c] = 0)
        /\ isEmpty(queues, order) <=> (itemCount(queues, order) = 0)

\* the samples of a batch from its index on, each with the value type of the batch
BatchRest(b) ==
    [i \in 1..(Len(b.samples) - b.index) |->
        [t |-> b.samples[b.index + i].t, v |-> b.samples[b.index + i].v,
         valueType |-> b.valueType]]

\* the samples a stream still holds, in the order of its batches
RECURSIVE StreamRest(_)
StreamRest(bs) == IF bs = <<>> THEN <<>> ELSE BatchRest(bs[1]) \o StreamRest(Tail(bs))

Times(q) == {q[i].t : i \in 1..Len(q)}

AtT(q, t) == q[CHOOSE i \in 1..Len(q) : q[i].t = t]

Ascending(q) == \A i \in 1..(Len(q) - 1) : q[i].t < q[i + 1].t

\* C39: the stream holds samples with strictly ascending timestamps; after the
\* merge of a batch with strictly ascending timestamps it holds the timestamps of
\* the stream and of the batch, each once, in ascending order. The sample at a
\* timestamp of one side only is the sample of that side; at a timestamp of both
\* sides it is the sample of the stream when the value types are equal or both are
\* histograms, and the histogram when one is a float and the other a histogram.
\* No batch of the result is empty or longer than the size.
C39_MergeByTime ==
    /\ Ascending(StreamRest(stream))
    /\ \A batch \in Batches, size \in 1..MaxSize :
           LET l == StreamRest(stream)
               r == BatchRest(batch)
               out == merge(stream, batch, size)
               o == StreamRest(out)
           IN  /\ Ascending(o)
               /\ Times(o) = Times(l) \cup Times(r)
               /\ \A i \in 1..Len(out) :
                      out[i].index = 0 /\ Len(out[i].samples) \in 1..size
               /\ \A t \in Times(o) :
                      IF t \notin Times(r) THEN AtT(o, t) = AtT(l, t)
                      ELSE IF t \notin Times(l) THEN AtT(o, t) = AtT(r, t)
                      ELSE IF AtT(l, t).valueType = AtT(r, t).valueType THEN AtT(o, t) = AtT(l, t)
                      ELSE IF AtT(l, t).valueType = ValFloat THEN AtT(o, t) = AtT(r, t)
                      ELSE AtT(o, t) = AtT(l, t)

\* the stream holds a float at one time and a histogram at a later one; a batch of
\* histograms with other values at both times, and at a time between them, is
\* merged: the result has the histogram of the batch at the first time, the
\* sample of the batch between, and the histogram of the stream at the last time
C39_Witness ==
    /\ StreamRest(stream) = <<[t |-> 1, v |-> "x", valueType |-> ValFloat],
                              [t |-> 3, v |-> "x", valueType |-> ValHistogram]>>
    /\ LET batch == [valueType |-> ValHistogram, index |-> 0,
                     samples |-> <<[t |-> 1, v |-> "y"], [t |-> 2, v |-> "y"],
                                   [t |-> 3, v |-> "y"]>>]
       IN  StreamRest(merge(stream, batch, MaxSize)) =
               <<[t |-> 1, v |-> "y", valueType |-> ValHistogram],
                 [t |-> 2, v |-> "y", valueType |-> ValHistogram],
                 [t |-> 3, v |-> "x", valueType |-> ValHistogram]>>

====
